---- MODULE Spec2Model ----
(***************************************************************************)
(* Iterators over the results of the book search adapters                  *)
(* (backend/books/iterators.py): MultiSourceIterator, LazyAPIIterator and  *)
(* BookAPICollection.  An adapter is the BookAPIInterface of               *)
(* backend/books/adapters.py: its search_by_query either raises or returns *)
(* a list of normalized records, and the iterator code puts no constraint  *)
(* on that list.                                                           *)
(* IteratorBookBuilder materializes the records of an iterator as Books    *)
(* through BookDirector (backend/books/builders.py); GoogleBooksAdapter    *)
(* and OpenLibraryAdapter are followed at their boundary with the API      *)
(* clients and in the isbn their normalization selects.                    *)
(***************************************************************************)
EXTENDS Integers, Sequences, FiniteSets, TLC

\* ------------------------------------------------------------------ bounds
MaxAdapters == 2     \* longest adapter list handed to an iterator
MaxResults  == 2     \* longest list one search_by_query call returns
MaxRecords  == 4     \* most records the adapters of one aggregation return in all
MaxLimit    == 1     \* largest limit / limit_per_api / page_size
MaxPages    == 2     \* largest max_pages of a LazyAPIIterator
MaxRuns     == 2     \* full consumptions of one LazyAPIIterator that are followed
MaxBatch    == 2     \* longest record list handed to an IteratorBookBuilder
MaxCount    == 1     \* largest count of a build_batch call
MaxItems    == 2     \* longest 'items' / 'docs' list of one API response
MaxIds      == 2     \* longest identifier list of one raw document
MaxRequests == 2     \* ReviewService.submit calls in flight or completed
MaxThreads  == 3     \* threads calling RecommendationEngine()
MaxSkip     == 2     \* largest |count| of a skip(count) call and of a position

\* --------------------------------------------------------------- adapters
\* get_api_name() of the two adapters.
ApiNames == {"google_books", "open_library"}

\* Values of the 'isbn' key of a normalized record; "None" stands for an
\* absent key / None, "" for the empty string.
IsbnValues == {"None", "", "111", "222", "333"}

\* Python truthiness of an isbn value (`if isbn`).
Truthy(isbn) == isbn \notin {"None", ""}

\* All sequences over S of length 0..n.
SeqUpTo(S, n) == UNION {[1..k -> S] : k \in 0..n}

\* A normalized record as an adapter returns it.
RawRecords == [isbn : IsbnValues]

\* Outcome of one search_by_query call: an exception, or a list of at most n
\* records.
ResponsesUpTo(n) ==
  {[raised |-> TRUE, results |-> <<>>]}
    \cup {[raised |-> FALSE, results |-> r] : r \in SeqUpTo(RawRecords, n)}

Responses == ResponsesUpTo(MaxResults)

AdapterLists == SeqUpTo(ApiNames, MaxAdapters)

VARIABLES
  adapters,       \* MultiSourceIterator._adapters (each adapter by its api name)
  limit_per_api,  \* MultiSourceIterator._limit_per_api
  deduplicate,    \* MultiSourceIterator._deduplicate
  all_results,    \* MultiSourceIterator._all_results
  ms_position,    \* MultiSourceIterator._position
  seen_isbns,     \* MultiSourceIterator._seen_isbns
  ms_pc,          \* where the constructor is: "loading", "done", "failed"
  ms_i,           \* index of the adapter the for loop of _load_all_results is at
  ms_error,       \* exception that escaped the constructor, "none" if none
  returned,       \* history: the response of each adapter queried so far
  ms_ret,         \* what the last __next__ / has_next call gave the caller
  lz_adapter,        \* LazyAPIIterator._adapter (by its api name)
  page_size,         \* LazyAPIIterator._page_size
  max_pages,         \* LazyAPIIterator._max_pages
  current_page,      \* LazyAPIIterator._current_page
  position_in_page,  \* LazyAPIIterator._position_in_page
  current_results,   \* LazyAPIIterator._current_results
  exhausted,         \* LazyAPIIterator._exhausted
  fetches,           \* search_by_query calls since construction / last reset()
  lz_op,             \* the last call made on the iterator
  lz_fetch,          \* what the page fetch of the last call came to
  lz_ret,            \* what the last call gave the caller
  lz_error,          \* exception other than StopIteration that escaped, or "none"
  u_results,         \* UnifiedAPIIterator._results
  u_api_name,        \* UnifiedAPIIterator._api_name
  u_position,        \* UnifiedAPIIterator._position
  u_total,           \* UnifiedAPIIterator._total
  apis,              \* BookAPICollection._apis (each adapter by its api name)
  col_op,            \* the last call made on / beside the collection
  col_error,         \* exception that call raised to its caller, or "none"
  col_calls,         \* search_by_query calls that call made
  source,            \* what a stable source answers to every search_by_query
  lz_hist,           \* history of a LazyAPIIterator over a stable source
  db,                \* Book.objects: the persisted Books, oldest first
  bb,                \* the running build_all / build_batch call of IteratorBookBuilder
  ad,                \* the last lookup made on an adapter and what it gave
  nz,                \* the last normalize_to_standard_format call and its result
  grouped,           \* what the last group_by_source() call returned
  reviews,           \* Review.objects: the committed rows, oldest first
  rv,                \* the ReviewService.submit call of each request
  sg,                \* SingletonMeta._instances, _lock and the calling threads
  u_ret              \* what the last call on a UnifiedAPIIterator gave the caller

msVars == <<adapters, limit_per_api, deduplicate, all_results, ms_position,
            seen_isbns, ms_pc, ms_i, ms_error, returned, ms_ret>>

lazyVars == <<lz_adapter, page_size, max_pages, current_page, position_in_page,
              current_results, exhausted, fetches, lz_op, lz_fetch, lz_ret,
              lz_error>>

uniVars == <<u_results, u_api_name, u_position, u_total>>

colVars == <<apis, col_op, col_error, col_calls>>

stableVars == <<source, lz_hist>>

builderVars == <<db, bb>>

adapterVars == <<ad, nz>>

viewVars == <<grouped>>

reviewVars == <<reviews, rv>>

singletonVars == <<sg>>

cursorVars == <<u_ret>>

extraVars == <<reviewVars, singletonVars, cursorVars>>

restVars == <<stableVars, builderVars, adapterVars, viewVars, extraVars>>

vars == <<msVars, lazyVars, uniVars, colVars, restVars>>

\* What the steps of one iterator leave alone.
notMulti == <<lazyVars, uniVars, colVars, restVars>>

notLazy == <<msVars, uniVars, colVars, restVars>>

notStable ==
  <<msVars, uniVars, colVars, builderVars, adapterVars, viewVars, extraVars>>

notBuilder ==
  <<msVars, lazyVars, colVars, stableVars, adapterVars, viewVars, extraVars>>

notAdapter ==
  <<msVars, lazyVars, uniVars, colVars, stableVars, builderVars, viewVars,
    extraVars>>

notView ==
  <<lazyVars, uniVars, colVars, stableVars, builderVars, adapterVars,
    extraVars>>

coreVars ==
  <<msVars, lazyVars, uniVars, colVars, stableVars, builderVars, adapterVars,
    viewVars>>

notReview == <<coreVars, singletonVars, cursorVars>>

notSingleton == <<coreVars, reviewVars, cursorVars>>

notCursor ==
  <<msVars, lazyVars, colVars, stableVars, builderVars, adapterVars, viewVars,
    reviewVars, singletonVars>>

\* What a call gave its caller: a record (__next__), "True" / "False"
\* (has_next), "StopIteration", or "none" when nothing was returned yet.
NoRecord == [isbn |-> "None", api_source |-> "none", src |-> 0, idx |-> 0]

Ret(kind, rec) == [kind |-> kind, rec |-> rec]

\* No LazyAPIIterator exists.
LazyIdle ==
  /\ lz_adapter = "none" /\ page_size = 0 /\ max_pages = 0
  /\ current_page = 0 /\ position_in_page = 0 /\ current_results = <<>>
  /\ exhausted = FALSE /\ fetches = 0 /\ lz_op = "none" /\ lz_fetch = "none"
  /\ lz_ret = [kind |-> "none", rec |-> [isbn |-> "None"]] /\ lz_error = "none"

\* No stable source is followed.
NoHist == [out |-> <<>>, runs |-> 0, first |-> <<>>]

StableIdle == source = [raised |-> FALSE, results |-> <<>>] /\ lz_hist = NoHist

\* No IteratorBookBuilder call was made and no Book is persisted.
NoCall ==
  [op |-> "none", skip_existing |-> FALSE, count |-> 0, books |-> <<>>,
   created |-> 0, pc |-> "none", error |-> "none", log |-> <<>>,
   again |-> FALSE]

BuilderIdle == db = <<>> /\ bb = NoCall

\* No adapter was called and nothing was normalized.
NoLookup ==
  [adapter |-> "none", op |-> "none", client |-> "none", items |-> <<>>,
   kind |-> "none", value |-> <<>>, escaped |-> "none"]

NoNormalize ==
  [adapter |-> "none", ids |-> <<>>, isbn |-> <<>>, done |-> FALSE,
   authors_in |-> <<>>, image_links |-> "absent", cover_i |-> "absent",
   covers |-> <<>>, authors |-> <<>>, cover_url |-> "None", raised |-> "none"]

AdapterIdle == ad = NoLookup /\ nz = NoNormalize

\* group_by_source() was not called.
ViewIdle == grouped = <<>>

\* No ReviewService.submit call was made and no Review is stored.
ReviewIdle == reviews = <<>> /\ rv = <<>>

\* No thread called RecommendationEngine().
NoSingleton == [instances |-> 0, lock |-> 0, inits |-> 0, threads |-> <<>>]

SingletonIdle == sg = NoSingleton

\* No call was made on a UnifiedAPIIterator.
NoCursorCall == [op |-> "none", kind |-> "none", index |-> 0]

CursorIdle == u_ret = NoCursorCall

\* None of the objects above is in use.
OthersIdle == ViewIdle /\ ReviewIdle /\ SingletonIdle /\ CursorIdle

RestIdle == StableIdle /\ BuilderIdle /\ AdapterIdle /\ OthersIdle

\* No UnifiedAPIIterator exists.
UnifiedIdle ==
  u_results = <<>> /\ u_api_name = "none" /\ u_position = 0 /\ u_total = 0

\* No BookAPICollection is in use.
CollectionIdle ==
  apis = <<>> /\ col_op = "none" /\ col_error = "none" /\ col_calls = 0

\* ------------------------------------------------- MultiSourceIterator
\* result['_api_source'] = api_name.  src and idx record where the record
\* came from: the position of the adapter in the list and of the record in
\* the list that adapter returned.
TagUnknown(result, api_name, src, idx) ==
  [isbn |-> result.isbn, api_source |-> "unknown", src |-> src, idx |-> idx]

Tag(result, api_name, src, idx) ==
  [isbn |-> result.isbn, api_source |-> api_name, src |-> src, idx |-> idx]

\* `if self._deduplicate:`
DedupAlways(flag) == TRUE

DedupEnabled(flag) == flag

\* `if isbn and isbn in self._seen_isbns: continue`
IsDuplicateNever(isbn, seen) == FALSE

IsDuplicate(isbn, seen) == Truthy(isbn) /\ isbn \in seen

\* `if isbn: self._seen_isbns.add(isbn)`
SeenAfter(isbn, seen) == IF Truthy(isbn) THEN seen \cup {isbn} ELSE seen

\* self._all_results.append(result)
PrependResult(results, r) == <<r>> \o results

AppendResult(results, r) == Append(results, r)

\* The inner loop `for result in results:` from record k on; st is the pair
\* of _all_results and _seen_isbns.
RECURSIVE LoadResults(_, _, _, _, _, _)
LoadResults(st, results, api_name, src, k, dedup) ==
  IF k > Len(results) THEN st
  ELSE LET r    == Tag(results[k], api_name, src, k)
           isbn == r.isbn
       IN IF DedupEnabled(dedup) /\ IsDuplicate(isbn, st.seen)
          THEN LoadResults(st, results, api_name, src, k + 1, dedup)
          ELSE LoadResults(
                 [all  |-> AppendResult(st.all, r),
                  seen |-> IF DedupEnabled(dedup) THEN SeenAfter(isbn, st.seen)
                           ELSE st.seen],
                 results, api_name, src, k + 1, dedup)

\* What an exception raised by search_by_query does to the constructor:
\* `except Exception as e: ...; continue`.
OnAdapterErrorAbort == "Exception"

OnAdapterError == "none"

\* One iteration of `for adapter in self._adapters:` with the given outcome
\* of adapter.search_by_query.
LoadAdapterStep(st, api_name, src, resp, dedup) ==
  IF resp.raised
  THEN [all |-> st.all, seen |-> st.seen, error |-> OnAdapterError]
  ELSE LET s == LoadResults(st, resp.results, api_name, src, 1, dedup)
       IN [all |-> s.all, seen |-> s.seen, error |-> "none"]

\* MultiSourceIterator.__init__ up to the call of _load_all_results.  The
\* limit is only handed on to search_by_query, so one value stands for all.
MultiInit ==
  /\ adapters \in AdapterLists
  /\ limit_per_api = MaxLimit
  /\ deduplicate \in BOOLEAN
  /\ all_results = <<>>
  /\ ms_position = 0
  /\ seen_isbns = {}
  /\ ms_pc = "loading"
  /\ ms_i = 1
  /\ ms_error = "none"
  /\ returned = <<>>
  /\ ms_ret = Ret("none", NoRecord)
  /\ LazyIdle /\ UnifiedIdle /\ CollectionIdle /\ RestIdle

\* Number of records the adapters queried so far have returned.
RECURSIVE TotalReturned(_)
TotalReturned(n) ==
  IF n = 0 THEN 0 ELSE TotalReturned(n - 1) + Len(returned[n].results)

\* _load_all_results: the body of the for loop for the adapter at ms_i.
LoadAdapter ==
  /\ ms_pc = "loading"
  /\ ms_i <= Len(adapters)
  /\ \E resp \in ResponsesUpTo(MaxRecords - TotalReturned(Len(returned))) :
       LET s == LoadAdapterStep([all |-> all_results, seen |-> seen_isbns],
                                adapters[ms_i], ms_i, resp, deduplicate)
       IN /\ all_results' = s.all
          /\ seen_isbns' = s.seen
          /\ ms_error' = s.error
          /\ returned' = Append(returned, resp)
          /\ IF s.error = "none"
             THEN ms_i' = ms_i + 1 /\ ms_pc' = "loading"
             ELSE ms_i' = ms_i /\ ms_pc' = "failed"
  /\ UNCHANGED <<adapters, limit_per_api, deduplicate, ms_position, ms_ret, notMulti>>

\* _load_all_results: the for loop is over; the constructor returns.
LoadDone ==
  /\ ms_pc = "loading"
  /\ ms_i > Len(adapters)
  /\ ms_pc' = "done"
  /\ UNCHANGED <<adapters, limit_per_api, deduplicate, all_results, ms_position,
                 seen_isbns, ms_i, ms_error, returned, ms_ret, notMulti>>

\* MultiSourceIterator.has_next
MultiHasNextValue == ms_position < Len(all_results)

MultiHasNext ==
  /\ ms_pc = "done"
  /\ ms_ret' = Ret(IF MultiHasNextValue THEN "True" ELSE "False", NoRecord)
  /\ UNCHANGED <<adapters, limit_per_api, deduplicate, all_results, ms_position,
                 seen_isbns, ms_pc, ms_i, ms_error, returned, notMulti>>

\* MultiSourceIterator.__next__
MultiNext ==
  /\ ms_pc = "done"
  /\ IF ~MultiHasNextValue
     THEN ms_ret' = Ret("StopIteration", NoRecord) /\ ms_position' = ms_position
     ELSE /\ ms_ret' = Ret("record", all_results[ms_position + 1])
          /\ ms_position' = ms_position + 1
  /\ UNCHANGED <<adapters, limit_per_api, deduplicate, all_results,
                 seen_isbns, ms_pc, ms_i, ms_error, returned, notMulti>>

\* MultiSourceIterator.reset
MultiReset ==
  /\ ms_pc = "done"
  /\ ms_position' = 0
  /\ ms_ret' = Ret("none", NoRecord)
  /\ UNCHANGED <<adapters, limit_per_api, deduplicate, all_results,
                 seen_isbns, ms_pc, ms_i, ms_error, returned, notMulti>>

\* The constructor alone.
MultiLoadStep == LoadAdapter \/ LoadDone

SpecMulti == MultiInit /\ [][MultiLoadStep]_vars

\* The constructor and then the iteration.
MultiNextStep == MultiLoadStep \/ MultiHasNext \/ MultiNext \/ MultiReset

SpecMultiIter == MultiInit /\ [][MultiNextStep]_vars

\* ------------------------------------------------------ LazyAPIIterator
\* No MultiSourceIterator exists.
MultiIdle ==
  /\ adapters = <<>> /\ limit_per_api = 0 /\ deduplicate = FALSE
  /\ all_results = <<>> /\ ms_position = 0 /\ seen_isbns = {}
  /\ ms_pc = "none" /\ ms_i = 0 /\ ms_error = "none" /\ returned = <<>>
  /\ ms_ret = Ret("none", NoRecord)

LzNoRecord == [isbn |-> "None"]

\* The fields of the iterator that _load_next_page reads and writes.
LazyState ==
  [current_page |-> current_page, position_in_page |-> position_in_page,
   current_results |-> current_results, exhausted |-> exhausted,
   error |-> "none"]

\* `if self._current_page >= self._max_pages:`
PageLimitOffByOne(page, maxp) == page > maxp

PageLimitReached(page, maxp) == page >= maxp

\* `if not results:`
IsEmptyPage(results) == results = <<>>

\* `except Exception as e: ...; self._exhausted = True`
OnFetchErrorRaise(st) == [st EXCEPT !.error = "Exception"]

OnFetchError(st) == [st EXCEPT !.exhausted = TRUE]

\* self._current_results = results; self._position_in_page = 0;
\* self._current_page += 1
InstallPageKeepPosition(st, results) ==
  [st EXCEPT !.current_results = results, !.current_page = @ + 1]

InstallPage(st, results) ==
  [st EXCEPT !.current_results = results, !.position_in_page = 0,
             !.current_page = @ + 1]

\* _load_next_page, resp being the outcome of search_by_query if it is called.
LoadNextPage(st, maxp, resp) ==
  IF PageLimitReached(st.current_page, maxp)
  THEN [st EXCEPT !.exhausted = TRUE]
  ELSE IF resp.raised THEN OnFetchError(st)
  ELSE IF IsEmptyPage(resp.results) THEN [st EXCEPT !.exhausted = TRUE]
  ELSE InstallPage(st, resp.results)

\* Whether _load_next_page calls search_by_query, and what the call comes to.
FetchOutcome(page, maxp, resp) ==
  IF PageLimitReached(page, maxp) THEN "skipped"
  ELSE IF resp.raised THEN "raised"
  ELSE IF IsEmptyPage(resp.results) THEN "empty"
  ELSE "ok"

CountFetch(outcome) == IF outcome \in {"raised", "empty", "ok"} THEN 1 ELSE 0

\* The state __init__ and reset() call _load_next_page in.
LazyFresh ==
  [current_page |-> 0, position_in_page |-> 0, current_results |-> <<>>,
   exhausted |-> FALSE, error |-> "none"]

\* LazyAPIIterator.__init__, the load of the first page included.
LazyInit ==
  /\ MultiIdle /\ UnifiedIdle /\ CollectionIdle /\ RestIdle
  /\ lz_adapter \in ApiNames
  /\ page_size \in 1..MaxLimit
  /\ max_pages \in 0..MaxPages
  /\ \E resp \in Responses :
       LET s == LoadNextPage(LazyFresh, max_pages, resp)
       IN /\ current_page = s.current_page
          /\ position_in_page = s.position_in_page
          /\ current_results = s.current_results
          /\ exhausted = s.exhausted
          /\ lz_error = s.error
          /\ lz_fetch = FetchOutcome(0, max_pages, resp)
          /\ fetches = CountFetch(FetchOutcome(0, max_pages, resp))
  /\ lz_op = "init"
  /\ lz_ret = Ret("none", LzNoRecord)

\* LazyAPIIterator.has_next
LazyHasNextSkipsLast(st) ==
  IF st.exhausted THEN FALSE
  ELSE st.position_in_page + 1 < Len(st.current_results)

LazyHasNextValue(st) ==
  IF st.exhausted THEN FALSE
  ELSE st.position_in_page < Len(st.current_results)

LazyHasNext ==
  /\ lz_op # "none" /\ lz_error = "none"
  /\ lz_op' = "has_next"
  /\ lz_fetch' = "none"
  /\ lz_ret' = Ret(IF LazyHasNextValue(LazyState) THEN "True" ELSE "False",
                   LzNoRecord)
  /\ UNCHANGED <<lz_adapter, page_size, max_pages, current_page, position_in_page,
                 current_results, exhausted, fetches, lz_error, notLazy>>

\* LazyAPIIterator.__next__
LazyNext ==
  /\ lz_op # "none" /\ lz_error = "none"
  /\ lz_op' = "next"
  /\ IF ~LazyHasNextValue(LazyState)
     THEN /\ lz_ret' = Ret("StopIteration", LzNoRecord)
          /\ lz_fetch' = "none"
          /\ UNCHANGED <<current_page, position_in_page, current_results,
                         exhausted, fetches, lz_error>>
     ELSE LET result == current_results[position_in_page + 1]
              st     == [LazyState EXCEPT !.position_in_page = @ + 1]
          IN IF st.position_in_page >= Len(st.current_results)
             THEN \E resp \in Responses :
                    LET s == LoadNextPage(st, max_pages, resp)
                        o == FetchOutcome(st.current_page, max_pages, resp)
                    IN /\ current_page' = s.current_page
                       /\ position_in_page' = s.position_in_page
                       /\ current_results' = s.current_results
                       /\ exhausted' = s.exhausted
                       /\ lz_error' = s.error
                       /\ lz_fetch' = o
                       /\ fetches' = fetches + CountFetch(o)
                       /\ lz_ret' = IF s.error = "none"
                                    THEN Ret("record", result)
                                    ELSE Ret(s.error, LzNoRecord)
             ELSE /\ position_in_page' = st.position_in_page
                  /\ lz_ret' = Ret("record", result)
                  /\ lz_fetch' = "none"
                  /\ UNCHANGED <<current_page, current_results, exhausted,
                                 fetches, lz_error>>
  /\ UNCHANGED <<lz_adapter, page_size, max_pages, notLazy>>

\* LazyAPIIterator.reset
LazyReset ==
  /\ lz_op # "none" /\ lz_error = "none"
  /\ lz_op' = "reset"
  /\ \E resp \in Responses :
       LET s == LoadNextPage(LazyFresh, max_pages, resp)
           o == FetchOutcome(0, max_pages, resp)
       IN /\ current_page' = s.current_page
          /\ position_in_page' = s.position_in_page
          /\ current_results' = s.current_results
          /\ exhausted' = s.exhausted
          /\ lz_error' = s.error
          /\ lz_fetch' = o
          /\ fetches' = CountFetch(o)
  /\ lz_ret' = Ret("none", LzNoRecord)
  /\ UNCHANGED <<lz_adapter, page_size, max_pages, notLazy>>

\* LazyAPIIterator.current_position
LazyCurrentPosition == (current_page - 1) * page_size + position_in_page

LazyNextStep == LazyHasNext \/ LazyNext \/ LazyReset

SpecLazy == LazyInit /\ [][LazyNextStep]_vars

\* ------------------------------------- LazyAPIIterator over a stable source
\* A stable source answers every search_by_query call with the same outcome
\* (the query is the same on every page: `search_by_query(self._query,
\* self._page_size)`).

\* reset(): the four assignments before the call of _load_next_page.
ResetStateKeepsExhausted(st) ==
  [st EXCEPT !.current_page = 0, !.position_in_page = 0,
             !.current_results = <<>>]

ResetState(st) ==
  [st EXCEPT !.current_page = 0, !.position_in_page = 0,
             !.current_results = <<>>, !.exhausted = FALSE]

\* __next__ as a function of the fields: the fields after the call, what the
\* caller gets and what the page fetch of the call came to.
LazyNextOfLosesLast(st, maxp, resp) ==
  IF ~LazyHasNextValue(st)
  THEN [st |-> st, ret |-> Ret("StopIteration", LzNoRecord), fetch |-> "none"]
  ELSE LET result == st.current_results[st.position_in_page + 1]
           adv    == [st EXCEPT !.position_in_page = @ + 1]
       IN IF adv.position_in_page >= Len(adv.current_results)
          THEN LET s == LoadNextPage(adv, maxp, resp)
               IN [st |-> s,
                   ret |-> IF s.exhausted
                           THEN Ret("StopIteration", LzNoRecord)
                           ELSE Ret("record", result),
                   fetch |-> FetchOutcome(adv.current_page, maxp, resp)]
          ELSE [st |-> adv, ret |-> Ret("record", result), fetch |-> "none"]

LazyNextOf(st, maxp, resp) ==
  IF ~LazyHasNextValue(st)
  THEN [st |-> st, ret |-> Ret("StopIteration", LzNoRecord), fetch |-> "none"]
  ELSE LET result == st.current_results[st.position_in_page + 1]
           adv    == [st EXCEPT !.position_in_page = @ + 1]
       IN IF adv.position_in_page >= Len(adv.current_results)
          THEN LET s == LoadNextPage(adv, maxp, resp)
               IN [st |-> s,
                   ret |-> IF s.error = "none" THEN Ret("record", result)
                           ELSE Ret(s.error, LzNoRecord),
                   fetch |-> FetchOutcome(adv.current_page, maxp, resp)]
          ELSE [st |-> adv, ret |-> Ret("record", result), fetch |-> "none"]

\* History of the iterator: `out` the records __next__ returned since the
\* construction or the last reset(), `runs` the full consumptions completed,
\* `first` what the first of them returned, `init` / `init_fetch` the fields
\* and the fetch right after the construction.
HistAfter(h, st, out) ==
  IF st.exhausted /\ h.runs < MaxRuns
  THEN [h EXCEPT !.out = out, !.runs = @ + 1,
                 !.first = IF h.runs = 0 THEN out ELSE @]
  ELSE [h EXCEPT !.out = out]

StableInit ==
  /\ MultiIdle /\ UnifiedIdle /\ CollectionIdle /\ BuilderIdle /\ AdapterIdle
  /\ OthersIdle
  /\ source \in Responses
  /\ lz_adapter \in ApiNames
  /\ page_size \in 1..MaxLimit
  /\ max_pages \in 0..MaxPages
  /\ LET s == LoadNextPage(LazyFresh, max_pages, source)
         o == FetchOutcome(0, max_pages, source)
     IN /\ current_page = s.current_page
        /\ position_in_page = s.position_in_page
        /\ current_results = s.current_results
        /\ exhausted = s.exhausted
        /\ lz_error = s.error
        /\ lz_fetch = o
        /\ fetches = CountFetch(o)
        /\ lz_hist = HistAfter([out |-> <<>>, runs |-> 0, first |-> <<>>,
                                init |-> s, init_fetch |-> o], s, <<>>)
  /\ lz_op = "init"
  /\ lz_ret = Ret("none", LzNoRecord)

StableNext ==
  /\ lz_op # "none" /\ lz_error = "none"
  /\ lz_op' = "next"
  /\ LET n == LazyNextOf(LazyState, max_pages, source)
     IN /\ current_page' = n.st.current_page
        /\ position_in_page' = n.st.position_in_page
        /\ current_results' = n.st.current_results
        /\ exhausted' = n.st.exhausted
        /\ lz_error' = n.st.error
        /\ lz_fetch' = n.fetch
        /\ fetches' = fetches + CountFetch(n.fetch)
        /\ lz_ret' = n.ret
        /\ lz_hist' = IF n.ret.kind = "record"
                      THEN HistAfter(lz_hist, n.st,
                                     Append(lz_hist.out, n.ret.rec))
                      ELSE lz_hist
  /\ UNCHANGED <<lz_adapter, page_size, max_pages, source, notStable>>

StableReset ==
  /\ lz_op # "none" /\ lz_error = "none"
  /\ lz_hist.runs < MaxRuns
  /\ lz_op' = "reset"
  /\ LET s == LoadNextPage(ResetState(LazyState), max_pages, source)
         o == FetchOutcome(0, max_pages, source)
     IN /\ current_page' = s.current_page
        /\ position_in_page' = s.position_in_page
        /\ current_results' = s.current_results
        /\ exhausted' = s.exhausted
        /\ lz_error' = s.error
        /\ lz_fetch' = o
        /\ fetches' = CountFetch(o)
        /\ lz_hist' = HistAfter(lz_hist, s, <<>>)
  /\ lz_ret' = Ret("none", LzNoRecord)
  /\ UNCHANGED <<lz_adapter, page_size, max_pages, source, notStable>>

StableNextStep == LazyHasNext \/ StableNext \/ StableReset

SpecLazyStable == StableInit /\ [][StableNextStep]_vars

\* --------------------------------- LazyAPIIterator, pages that may differ
\* Outcomes of search_by_query over two distinguishable records, so that the
\* order of the records across pages shows.
PageRecords == [isbn : {"111", "222"}]

PageResponses ==
  {[raised |-> TRUE, results |-> <<>>]}
    \cup {[raised |-> FALSE, results |-> r] :
            r \in SeqUpTo(PageRecords, MaxResults)}

\* The records of the non-empty pages search_by_query returned so far, in
\* fetch order, after one more _load_next_page.
PagesAfter(pages, outcome, resp) ==
  IF outcome = "ok" THEN pages \o resp.results ELSE pages

\* LazyAPIIterator.__init__ with the history of the fetched pages (`pages`)
\* and of the records returned (`out`).
PagesInit ==
  /\ MultiIdle /\ UnifiedIdle /\ CollectionIdle /\ BuilderIdle /\ AdapterIdle
  /\ OthersIdle
  /\ source = [raised |-> FALSE, results |-> <<>>]
  /\ lz_adapter \in ApiNames
  /\ page_size \in 1..MaxLimit
  /\ max_pages \in 0..MaxPages
  /\ \E resp \in PageResponses :
       LET s == LoadNextPage(LazyFresh, max_pages, resp)
           o == FetchOutcome(0, max_pages, resp)
       IN /\ current_page = s.current_page
          /\ position_in_page = s.position_in_page
          /\ current_results = s.current_results
          /\ exhausted = s.exhausted
          /\ lz_error = s.error
          /\ lz_fetch = o
          /\ fetches = CountFetch(o)
          /\ lz_hist = [out |-> <<>>, pages |-> PagesAfter(<<>>, o, resp)]
  /\ lz_op = "init"
  /\ lz_ret = Ret("none", LzNoRecord)

\* LazyAPIIterator.__next__, the prefetch at the end of a page included.
PagesNext ==
  /\ lz_op # "none" /\ lz_error = "none"
  /\ lz_op' = "next"
  /\ \E resp \in PageResponses :
       LET n == LazyNextOf(LazyState, max_pages, resp)
       IN /\ current_page' = n.st.current_page
          /\ position_in_page' = n.st.position_in_page
          /\ current_results' = n.st.current_results
          /\ exhausted' = n.st.exhausted
          /\ lz_error' = n.st.error
          /\ lz_fetch' = n.fetch
          /\ fetches' = fetches + CountFetch(n.fetch)
          /\ lz_ret' = n.ret
          /\ lz_hist' = [out |-> IF n.ret.kind = "record"
                                 THEN Append(lz_hist.out, n.ret.rec)
                                 ELSE lz_hist.out,
                         pages |-> PagesAfter(lz_hist.pages, n.fetch, resp)]
  /\ UNCHANGED <<lz_adapter, page_size, max_pages, source, notStable>>

\* LazyAPIIterator.reset before the consumption is complete or after it.
PagesReset ==
  /\ lz_op # "none" /\ lz_error = "none"
  /\ lz_op' = "reset"
  /\ \E resp \in PageResponses :
       LET s == LoadNextPage(ResetState(LazyState), max_pages, resp)
           o == FetchOutcome(0, max_pages, resp)
       IN /\ current_page' = s.current_page
          /\ position_in_page' = s.position_in_page
          /\ current_results' = s.current_results
          /\ exhausted' = s.exhausted
          /\ lz_error' = s.error
          /\ lz_fetch' = o
          /\ fetches' = CountFetch(o)
          /\ lz_hist' = [out |-> <<>>, pages |-> PagesAfter(<<>>, o, resp)]
  /\ lz_ret' = Ret("none", LzNoRecord)
  /\ UNCHANGED <<lz_adapter, page_size, max_pages, source, notStable>>

PagesNextStep == LazyHasNext \/ PagesNext \/ PagesReset

SpecLazyPages == PagesInit /\ [][PagesNextStep]_vars

\* ----------------------------------------------------- IteratorBookBuilder
\* A string whose characters matter is the sequence of its characters; None
\* is the one-element sequence <<"None">>, which is no string.
None == <<"None">>

Digits == {"0", "1", "2", "3", "4", "5", "6", "7", "8", "9"}

\* `c.isdigit()`
IsDigit(c) == c \in Digits

\* `''.join(c for c in isbn if c.isdigit())` of BookBuilder.set_isbn
CleanIsbn(isbn) == SelectSeq(isbn, IsDigit)

\* `len(cleaned_isbn) not in [10, 13]` raises ValueError
IsbnLengthOk(cleaned) == Len(cleaned) \in {10, 13}

\* `if isbn` / `if not isbn`: neither None nor the empty string
IsbnGiven(isbn) == isbn # None /\ isbn # <<>>

\* valid_sources of BookBuilder.set_source
ValidSources == {"manual", "google_books", "open_library"}

\* The 'isbn' values of the records handed to the builder: absent, empty, 13
\* digits, the same 13 digits with a space after the prefix, and 3 digits.
Isbn13 == <<"9", "7", "8", "1", "1", "1", "1", "1", "1", "1", "1", "1", "1">>

Isbn13Spaced == <<"9", "7", "8", " ", "1", "1", "1", "1", "1", "1", "1", "1", "1", "1">>

IsbnShort == <<"1", "2", "3">>

BuilderIsbns == {None, <<>>, Isbn13, Isbn13Spaced, IsbnShort}

\* A normalized record as the builder reads it: 'title', 'isbn' and
\* '_api_source' ("absent" when the key is missing); 'authors' falls back to
\* a default and the optional keys are absent.
BuilderRecords ==
  [title : {"", "T"}, isbn : BuilderIsbns, api_source : {"google_books", "absent"}]

\* `normalized_data.get('_api_source', 'unknown')`
ApiNameOf(rec) == IF rec.api_source = "absent" THEN "unknown" ELSE rec.api_source

NoBook == [title |-> "", isbn |-> <<>>, source |-> "none"]

\* A Book persisted before the builder runs (Book.objects.create(...)).
ExistingBook == [title |-> "T", isbn |-> Isbn13, source |-> "manual"]

\* BookDirector.construct_from_adapter and the validation of
\* BookBuilder.build: the Book that is handed to the storage, or ok = FALSE
\* when a ValueError is raised (empty title, isbn of a wrong length, source
\* outside valid_sources).
ConstructFromAdapter(rec, api_name) ==
  IF rec.title = "" THEN [ok |-> FALSE, book |-> NoBook]
  ELSE IF IsbnGiven(rec.isbn) /\ ~IsbnLengthOk(CleanIsbn(rec.isbn))
  THEN [ok |-> FALSE, book |-> NoBook]
  ELSE IF api_name \notin ValidSources THEN [ok |-> FALSE, book |-> NoBook]
  ELSE [ok |-> TRUE,
        book |-> [title |-> rec.title,
                  isbn |-> IF IsbnGiven(rec.isbn) THEN CleanIsbn(rec.isbn)
                           ELSE <<>>,
                  source |-> api_name]]

\* `book = Book(**self._book_data); book.save()`: the storage collaborator
\* persists the fields the builder hands it.
SaveBook(dbs, book) == Append(dbs, book)

\* `Book.objects.filter(isbn=isbn).exists()`
ExistsByIsbn(dbs, isbn) == \E i \in DOMAIN dbs : dbs[i].isbn = isbn

\* `if skip_existing: isbn = normalized_data.get('isbn');
\*  if isbn and Book.objects.filter(isbn=isbn).exists(): continue`
ShouldSkipIgnoresFlag(rec, skip, dbs) ==
  IsbnGiven(rec.isbn) /\ ExistsByIsbn(dbs, rec.isbn)

ShouldSkip(rec, skip, dbs) ==
  skip /\ IsbnGiven(rec.isbn) /\ ExistsByIsbn(dbs, rec.isbn)

\* `except Exception as e: logger.error(...); continue`
OnBuildErrorAbort(b) == [b EXCEPT !.error = "ValueError", !.pc = "failed"]

OnBuildError(b) == b

\* `while created < count and self._iterator.has_next():`
BatchContinuesOneMore(created, count, has_next) == created <= count /\ has_next

BatchContinues(created, count, has_next) == created < count /\ has_next

\* The body of the loop of build_all / build_batch for one record: the call
\* frame and the persisted Books after it.  `created` is the counter of
\* build_batch.
ProcessRecord(b, dbs, rec) ==
  IF ShouldSkip(rec, b.skip_existing, dbs)
  THEN [bb |-> [b EXCEPT !.log = Append(@, "skipped")], db |-> dbs]
  ELSE LET c == ConstructFromAdapter(rec, ApiNameOf(rec))
       IN IF c.ok
          THEN [bb |-> [b EXCEPT !.books = Append(@, c.book),
                                 !.created = IF b.op = "build_batch"
                                             THEN @ + 1 ELSE @,
                                 !.log = Append(@, "created")],
                db |-> SaveBook(dbs, c.book)]
          ELSE [bb |-> OnBuildError([b EXCEPT !.log = Append(@, "failed")]),
                db |-> dbs]

\* UnifiedAPIIterator.has_next
UnifiedHasNext == u_position < u_total

\* UnifiedAPIIterator(results, api_name), IteratorBookBuilder(iterator) and
\* the call of build_all(skip_existing) or build_batch(count, skip_existing).
BuilderInit ==
  /\ MultiIdle /\ LazyIdle /\ CollectionIdle /\ StableIdle /\ AdapterIdle
  /\ OthersIdle
  /\ u_results \in SeqUpTo(BuilderRecords, MaxBatch)
  /\ u_api_name = "google_books"
  /\ u_position = 0
  /\ u_total = Len(u_results)
  /\ db \in {<<>>, <<ExistingBook>>}
  /\ \E op \in {"build_all", "build_batch"}, skip \in BOOLEAN,
        count \in 0..MaxCount :
       /\ op = "build_all" => count = 0
       /\ bb = [NoCall EXCEPT !.op = op, !.skip_existing = skip,
                              !.count = count, !.pc = "loop"]

\* One pass of `for normalized_data in self._iterator:` of build_all.
BuildAllIter ==
  /\ bb.op = "build_all" /\ bb.pc = "loop"
  /\ UnifiedHasNext
  /\ LET r == ProcessRecord(bb, db, u_results[u_position + 1])
     IN bb' = r.bb /\ db' = r.db
  /\ u_position' = u_position + 1
  /\ UNCHANGED <<u_results, u_api_name, u_total, notBuilder>>

\* The for loop ends on StopIteration: `return books`.
BuildAllReturn ==
  /\ bb.op = "build_all" /\ bb.pc = "loop"
  /\ ~UnifiedHasNext
  /\ bb' = [bb EXCEPT !.pc = "returned"]
  /\ UNCHANGED <<db, uniVars, notBuilder>>

\* One pass of the while loop of build_batch.
BuildBatchIter ==
  /\ bb.op = "build_batch" /\ bb.pc = "loop"
  /\ BatchContinues(bb.created, bb.count, UnifiedHasNext)
  /\ LET r == ProcessRecord(bb, db, u_results[u_position + 1])
     IN bb' = r.bb /\ db' = r.db
  /\ u_position' = u_position + 1
  /\ UNCHANGED <<u_results, u_api_name, u_total, notBuilder>>

\* The while condition is false: `return books`.
BuildBatchReturn ==
  /\ bb.op = "build_batch" /\ bb.pc = "loop"
  /\ ~BatchContinues(bb.created, bb.count, UnifiedHasNext)
  /\ bb' = [bb EXCEPT !.pc = "returned"]
  /\ UNCHANGED <<db, uniVars, notBuilder>>

\* The same call once more over the same records: iterator.reset() (or a
\* new UnifiedAPIIterator over the same list) and a second build_all /
\* build_batch with the same arguments.
SecondPass ==
  /\ bb.pc = "returned" /\ ~bb.again
  /\ u_position' = 0
  /\ bb' = [bb EXCEPT !.books = <<>>, !.created = 0, !.pc = "loop",
                      !.log = <<>>, !.again = TRUE]
  /\ UNCHANGED <<db, u_results, u_api_name, u_total, notBuilder>>

BuilderNextStep ==
  BuildAllIter \/ BuildAllReturn \/ BuildBatchIter \/ BuildBatchReturn
    \/ SecondPass

SpecBuilder == BuilderInit /\ [][BuilderNextStep]_vars

\* UnifiedAPIIterator(results, api_name) and IteratorBookBuilder(iterator),
\* before the first build_next().
BuildNextInit ==
  /\ MultiIdle /\ LazyIdle /\ CollectionIdle /\ StableIdle /\ AdapterIdle
  /\ OthersIdle
  /\ u_results \in SeqUpTo(BuilderRecords, MaxBatch)
  /\ u_api_name = "google_books"
  /\ u_position = 0
  /\ u_total = Len(u_results)
  /\ db \in {<<>>, <<ExistingBook>>}
  /\ bb = [NoCall EXCEPT !.op = "build_next", !.pc = "returned"]

\* build_next(): `next(self._iterator)` and construct_from_adapter; the
\* value returned is the last of bb.books after "created" and None after
\* "failed" (`except Exception`) and after "stopped" (`except StopIteration`).
BuildNextCall ==
  /\ bb.op = "build_next" /\ bb.pc = "returned"
  /\ UnifiedHasNext
  /\ LET rec == u_results[u_position + 1]
         c == ConstructFromAdapter(rec, ApiNameOf(rec))
     IN IF c.ok
        THEN /\ bb' = [bb EXCEPT !.books = Append(@, c.book),
                                 !.log = Append(@, "created")]
             /\ db' = SaveBook(db, c.book)
        ELSE /\ bb' = [bb EXCEPT !.log = Append(@, "failed")]
             /\ db' = db
  /\ u_position' = u_position + 1
  /\ UNCHANGED <<u_results, u_api_name, u_total, notBuilder>>

\* build_next() on an iterator without elements: UnifiedAPIIterator.__next__
\* raises StopIteration and None is returned.
BuildNextStop ==
  /\ bb.op = "build_next" /\ bb.pc = "returned"
  /\ ~UnifiedHasNext
  /\ Len(bb.log) <= MaxBatch
  /\ bb' = [bb EXCEPT !.log = Append(@, "stopped")]
  /\ UNCHANGED <<db, uniVars, notBuilder>>

BuildNextStep == BuildNextCall \/ BuildNextStop

SpecBuildNext == BuildNextInit /\ [][BuildNextStep]_vars

\* ------------------------------------ GoogleBooksAdapter, OpenLibraryAdapter
\* Identifiers of one book as the remote APIs write them: its ISBN-13 plain,
\* hyphenated and with a space, and its ISBN-10 plain and hyphenated.
Plain13 == <<"9", "7", "8", "0", "3", "0", "6", "4", "0", "6", "1", "5", "7">>

Hyphened13 == <<"9", "7", "8", "-", "0", "-", "3", "0", "6", "-", "4", "0", "6", "1", "5", "-", "7">>

Spaced13 == <<"9", "7", "8", " ", "0", "3", "0", "6", "4", "0", "6", "1", "5", "7">>

Plain10 == <<"0", "3", "0", "6", "4", "0", "6", "1", "5", "2">>

Hyphened10 == <<"0", "-", "3", "0", "6", "-", "4", "0", "6", "1", "5", "-", "2">>

IdStrings == {Plain13, Hyphened13, Spaced13, Plain10, Hyphened10}

\* The identifier lists of a raw document ('industryIdentifiers' of Google
\* Books, 'isbn' of Open Library).
IdLists == SeqUpTo(IdStrings, MaxIds)

\* `.replace('-', '')`
NotHyphen(c) == c # "-"

RemoveHyphens(str) == SelectSeq(str, NotHyphen)

\* The 'type' Google Books gives an identifier: by the number of its digits.
TypeOf(id) ==
  IF Len(SelectSeq(id, IsDigit)) = 13 THEN "ISBN_13"
  ELSE IF Len(SelectSeq(id, IsDigit)) = 10 THEN "ISBN_10"
  ELSE "OTHER"

\* `for identifier in identifiers: if identifier.get('type') == type: ...
\* break`: the index of the first identifier of the type, 0 if there is none.
FirstOfType(ids, type) ==
  IF \E i \in DOMAIN ids : TypeOf(ids[i]) = type
  THEN CHOOSE i \in DOMAIN ids :
         /\ TypeOf(ids[i]) = type
         /\ \A j \in 1..(i - 1) : TypeOf(ids[j]) # type
  ELSE 0

\* GoogleBooksAdapter.normalize_to_standard_format, the 'isbn' key.
GoogleIsbn(ids) ==
  IF FirstOfType(ids, "ISBN_13") # 0
  THEN RemoveHyphens(ids[FirstOfType(ids, "ISBN_13")])
  ELSE IF FirstOfType(ids, "ISBN_10") # 0
  THEN RemoveHyphens(ids[FirstOfType(ids, "ISBN_10")])
  ELSE None

\* `max(isbns, key=len)`: the first element of the greatest length.
MaxByLen(isbns) ==
  isbns[CHOOSE i \in DOMAIN isbns :
          /\ \A j \in DOMAIN isbns : Len(isbns[j]) <= Len(isbns[i])
          /\ \A j \in 1..(i - 1) : Len(isbns[j]) < Len(isbns[i])]

\* OpenLibraryAdapter.normalize_to_standard_format, the 'isbn' key.
OpenLibraryIsbn(isbns) ==
  IF isbns # <<>> THEN RemoveHyphens(MaxByLen(isbns)) ELSE None

NormalizedIsbn(adapter, ids) ==
  IF adapter = "google_books" THEN GoogleIsbn(ids) ELSE OpenLibraryIsbn(ids)

\* The optional fields of a raw document.  An author list ('authors' of
\* Google Books, 'author_name' of Open Library) and the 'covers' list of
\* Open Library are absent (None), empty or hold one entry; 'imageLinks' of
\* Google Books is absent, an empty object or holds a thumbnail; 'cover_i'
\* of Open Library is absent or an id.
AuthorInputs == {None, <<>>, <<"A">>}

ImageLinkInputs == {"absent", "empty", "thumbnail"}

CoverIdInputs == {"absent", "12345"}

CoversInputs == {None, <<>>, <<"67890">>}

\* `volume_info.get('authors', [])`
GoogleAuthors(authors_in) == IF authors_in = None THEN <<>> ELSE authors_in

\* `if 'author_name' in api_data: authors = api_data.get('author_name', [])`
OpenLibraryAuthors(authors_in) == IF authors_in = None THEN <<>> ELSE authors_in

\* `image_links = volume_info.get('imageLinks', {})` and the `or` chain over
\* its sizes.
GoogleCover(image_links) ==
  IF image_links = "thumbnail" THEN "http://books.google.com/t" ELSE "None"

\* `api_data.get('covers', [None])[0]`, the default argument of the lookup
\* of 'cover_i': evaluated before the lookup, whether or not 'cover_i' is
\* present.  An empty list has no element 0.
FirstCover(covers) ==
  IF covers = None THEN [raised |-> "none", id |-> "None"]
  ELSE IF covers = <<>> THEN [raised |-> "IndexError", id |-> "None"]
  ELSE [raised |-> "none", id |-> covers[1]]

\* `cover_id = api_data.get('cover_i', <first cover>)`;
\* `if cover_id: cover_url = f"https://covers.openlibrary.org/b/id/{cover_id}-L.jpg"`
OpenLibraryCover(cover_i, covers) ==
  LET first == FirstCover(covers)
      cover_id == IF cover_i # "absent" THEN cover_i ELSE first.id
  IN [raised |-> first.raised,
      url |-> IF first.raised # "none" \/ cover_id = "None" THEN "None"
              ELSE "https://covers.openlibrary.org/b/id/" \o cover_id \o "-L.jpg"]

\* normalize_to_standard_format is called on a raw document.
NormalizeInit ==
  /\ MultiIdle /\ LazyIdle /\ UnifiedIdle /\ CollectionIdle
  /\ StableIdle /\ BuilderIdle /\ OthersIdle
  /\ ad = NoLookup
  /\ nz \in [adapter : ApiNames, ids : IdLists, isbn : {<<>>}, done : {FALSE},
              authors_in : AuthorInputs, image_links : ImageLinkInputs,
              cover_i : CoverIdInputs, covers : CoversInputs,
              authors : {<<>>}, cover_url : {"None"}, raised : {"none"}]
  /\ nz.adapter = "google_books"
       => nz.cover_i = "absent" /\ nz.covers = None
  /\ nz.adapter = "open_library" => nz.image_links = "absent"

GoogleNormalize ==
  /\ nz.adapter = "google_books" /\ ~nz.done /\ nz.raised = "none"
  /\ nz' = [nz EXCEPT !.isbn = GoogleIsbn(nz.ids), !.done = TRUE,
                      !.authors = GoogleAuthors(nz.authors_in),
                      !.cover_url = GoogleCover(nz.image_links)]
  /\ UNCHANGED <<ad, notAdapter>>

OpenLibraryNormalize ==
  /\ nz.adapter = "open_library" /\ ~nz.done /\ nz.raised = "none"
  /\ LET cover == OpenLibraryCover(nz.cover_i, nz.covers)
     IN nz' = IF cover.raised # "none"
              THEN [nz EXCEPT !.raised = cover.raised]
              ELSE [nz EXCEPT !.isbn = OpenLibraryIsbn(nz.ids), !.done = TRUE,
                              !.authors = OpenLibraryAuthors(nz.authors_in),
                              !.cover_url = cover.url]
  /\ UNCHANGED <<ad, notAdapter>>

NormalizeNextStep == GoogleNormalize \/ OpenLibraryNormalize

SpecNormalize == NormalizeInit /\ [][NormalizeNextStep]_vars

\* A raw document of a response: one whose normalization raises (a value of
\* the wrong shape), or one with at most one identifier.
RawDocs == [malformed : BOOLEAN, ids : SeqUpTo(IdStrings, 1)]

\* What the client (GoogleBooksAPI / OpenLibraryAPI) does on a call: raise,
\* return None, return a response without 'items' / 'docs', or return one.
ClientOutcomes == {"raise", "none", "no_items", "ok"}

\* `except Exception as e: logger.error(...); return None` / `return []`
AbsorbReraise(kind) == [kind |-> "none", value |-> <<>>, escaped |-> "Exception"]

Absorb(kind) == [kind |-> kind, value |-> <<>>, escaped |-> "none"]

\* `return None` / `return []` when the client found nothing.
NotFound(kind) == [kind |-> kind, value |-> <<>>, escaped |-> "none"]

\* search_by_isbn / fetch_by_id of GoogleBooksAdapter, search_by_isbn of
\* OpenLibraryAdapter: the body of the try statement and its except clause.
LookupOne(adapter, client, doc) ==
  IF client = "raise" THEN Absorb("None")
  ELSE IF client = "none" THEN NotFound("None")
  ELSE IF doc.malformed THEN Absorb("None")
  ELSE [kind |-> "record",
        value |-> <<[isbn |-> NormalizedIsbn(adapter, doc.ids)]>>,
        escaped |-> "none"]

\* The for loop of search_by_query: a document whose normalization raises
\* is left out.
RECURSIVE NormalizeItems(_, _)
NormalizeItems(adapter, items) ==
  IF items = <<>> THEN <<>>
  ELSE IF Head(items).malformed THEN NormalizeItems(adapter, Tail(items))
  ELSE <<[isbn |-> NormalizedIsbn(adapter, Head(items).ids)]>>
         \o NormalizeItems(adapter, Tail(items))

\* search_by_query of both adapters.
LookupMany(adapter, client, items) ==
  IF client = "raise" THEN Absorb("list")
  ELSE IF client \in {"none", "no_items"} THEN NotFound("list")
  ELSE [kind |-> "list", value |-> NormalizeItems(adapter, items),
        escaped |-> "none"]

\* The result of a call as the state holds it.
Called(adapter, op, client, items, r) ==
  [adapter |-> adapter, op |-> op, client |-> client, items |-> items,
   kind |-> r.kind, value |-> r.value, escaped |-> r.escaped]

\* An adapter of either class exists (the constructors call no API).
AdapterInit ==
  /\ MultiIdle /\ LazyIdle /\ UnifiedIdle /\ CollectionIdle
  /\ StableIdle /\ BuilderIdle /\ OthersIdle
  /\ nz = NoNormalize
  /\ \E a \in ApiNames : ad = [NoLookup EXCEPT !.adapter = a]

search_by_isbn ==
  /\ \E client \in ClientOutcomes \ {"no_items"}, doc \in RawDocs :
       /\ client # "ok" => doc = [malformed |-> FALSE, ids |-> <<>>]
       /\ ad' = Called(ad.adapter, "search_by_isbn", client,
                       IF client = "ok" THEN <<doc>> ELSE <<>>,
                       LookupOne(ad.adapter, client, doc))
  /\ UNCHANGED <<nz, notAdapter>>

fetch_by_id ==
  /\ \E client \in ClientOutcomes \ {"no_items"}, doc \in RawDocs :
       /\ client # "ok" => doc = [malformed |-> FALSE, ids |-> <<>>]
       /\ ad' = IF ad.adapter = "open_library"
                THEN Called(ad.adapter, "fetch_by_id", "not_called", <<>>,
                            NotFound("None"))
                ELSE Called(ad.adapter, "fetch_by_id", client,
                            IF client = "ok" THEN <<doc>> ELSE <<>>,
                            LookupOne(ad.adapter, client, doc))
  /\ UNCHANGED <<nz, notAdapter>>

search_by_query ==
  /\ \E client \in ClientOutcomes, items \in SeqUpTo(RawDocs, MaxItems) :
       /\ client # "ok" => items = <<>>
       /\ ad' = Called(ad.adapter, "search_by_query", client, items,
                       LookupMany(ad.adapter, client, items))
  /\ UNCHANGED <<nz, notAdapter>>

AdapterNextStep == search_by_isbn \/ fetch_by_id \/ search_by_query

SpecAdapter == AdapterInit /\ [][AdapterNextStep]_vars

\* ---------------------------------------------------- BookAPICollection
\* _load_all_results as a whole: the for loop from adapter i on, resps[i]
\* being the outcome of the i-th adapter's search_by_query.  An exception
\* that is not caught ends the loop.
RECURSIVE LoadAllResults(_, _, _, _, _)
LoadAllResults(st, adps, resps, i, dedup) ==
  IF i > Len(adps) \/ st.error # "none" THEN st
  ELSE LoadAllResults(LoadAdapterStep(st, adps[i], i, resps[i], dedup),
                      adps, resps, i + 1, dedup)

\* MultiSourceIterator(adps, query, limit, dedup): the whole constructor.
MultiSourceIteratorNew(adps, limit, dedup, resps) ==
  LET s == LoadAllResults([all |-> <<>>, seen |-> {}, error |-> "none"],
                          adps, resps, 1, dedup)
  IN /\ adapters' = adps
     /\ limit_per_api' = limit
     /\ deduplicate' = dedup
     /\ all_results' = s.all
     /\ seen_isbns' = s.seen
     /\ ms_position' = 0
     /\ ms_error' = s.error
     /\ ms_pc' = IF s.error = "none" THEN "done" ELSE "failed"
     /\ ms_i' = Len(adps) + 1
     /\ returned' = resps
     /\ ms_ret' = Ret("none", NoRecord)
     /\ col_error' = s.error
     /\ col_calls' = Len(resps)

\* The primed state in which no iterator exists.
NoMulti ==
  /\ adapters' = <<>> /\ limit_per_api' = 0 /\ deduplicate' = FALSE
  /\ all_results' = <<>> /\ ms_position' = 0 /\ seen_isbns' = {}
  /\ ms_pc' = "none" /\ ms_i' = 0 /\ ms_error' = "none" /\ returned' = <<>>
  /\ ms_ret' = Ret("none", NoRecord)

NoLazy ==
  /\ lz_adapter' = "none" /\ page_size' = 0 /\ max_pages' = 0
  /\ current_page' = 0 /\ position_in_page' = 0 /\ current_results' = <<>>
  /\ exhausted' = FALSE /\ fetches' = 0 /\ lz_op' = "none" /\ lz_fetch' = "none"
  /\ lz_ret' = Ret("none", LzNoRecord) /\ lz_error' = "none"

NoUnified ==
  u_results' = <<>> /\ u_api_name' = "none" /\ u_position' = 0 /\ u_total' = 0

\* A call that raised before any iterator was built.
Raised(op, exc) ==
  /\ col_op' = op /\ col_error' = exc /\ col_calls' = 0
  /\ NoMulti /\ NoLazy /\ NoUnified

\* `if not self._apis: raise ValueError(...)`
EmptyCheck(list) == list = <<>>

\* No iterator was built yet: the collection is followed up to the first
\* iterator it (or its client) builds.
NoIteratorYet == ms_pc = "none" /\ lz_op = "none" /\ u_api_name = "none"

\* BookAPICollection.__init__
CollectionInit ==
  /\ MultiIdle /\ LazyIdle /\ UnifiedIdle /\ RestIdle
  /\ apis = <<>> /\ col_op = "init" /\ col_error = "none" /\ col_calls = 0

\* BookAPICollection.add_api
add_api ==
  /\ NoIteratorYet
  /\ Len(apis) < MaxAdapters
  /\ \E a \in ApiNames : apis' = Append(apis, a)
  /\ col_op' = "add_api" /\ col_error' = "none" /\ col_calls' = 0
  /\ UNCHANGED <<msVars, lazyVars, uniVars, restVars>>

\* BookAPICollection.create_iterator
create_iterator ==
  /\ NoIteratorYet
  /\ \E api_index \in 0..(MaxAdapters - 1), limit \in 1..MaxLimit,
        resp \in Responses :
       IF EmptyCheck(apis) THEN Raised("create_iterator", "ValueError")
       ELSE IF api_index >= Len(apis) THEN Raised("create_iterator", "IndexError")
       ELSE /\ col_op' = "create_iterator"
            /\ col_calls' = 1
            /\ NoMulti /\ NoLazy
            /\ IF resp.raised
               THEN col_error' = "Exception" /\ NoUnified
               ELSE /\ col_error' = "none"
                    /\ u_results' = resp.results
                    /\ u_api_name' = apis[api_index + 1]
                    /\ u_position' = 0
                    /\ u_total' = Len(resp.results)
  /\ UNCHANGED <<apis, restVars>>

\* BookAPICollection.create_lazy_iterator
create_lazy_iterator ==
  /\ NoIteratorYet
  /\ \E api_index \in 0..(MaxAdapters - 1), psize \in 1..MaxLimit,
        maxp \in 0..MaxPages, resp \in Responses :
       IF EmptyCheck(apis) THEN Raised("create_lazy_iterator", "ValueError")
       ELSE IF api_index >= Len(apis)
       THEN Raised("create_lazy_iterator", "IndexError")
       ELSE LET s == LoadNextPage(LazyFresh, maxp, resp)
                o == FetchOutcome(0, maxp, resp)
            IN /\ col_op' = "create_lazy_iterator"
               /\ col_error' = s.error
               /\ col_calls' = CountFetch(o)
               /\ NoMulti /\ NoUnified
               /\ lz_adapter' = apis[api_index + 1]
               /\ page_size' = psize
               /\ max_pages' = maxp
               /\ current_page' = s.current_page
               /\ position_in_page' = s.position_in_page
               /\ current_results' = s.current_results
               /\ exhausted' = s.exhausted
               /\ lz_error' = s.error
               /\ lz_fetch' = o
               /\ fetches' = CountFetch(o)
               /\ lz_op' = "init"
               /\ lz_ret' = Ret("none", LzNoRecord)
  /\ UNCHANGED <<apis, restVars>>

\* BookAPICollection.create_multi_source_iterator
create_multi_source_iterator ==
  /\ NoIteratorYet
  /\ \E limit \in 1..MaxLimit, dedup \in BOOLEAN :
       IF EmptyCheck(apis)
       THEN Raised("create_multi_source_iterator", "ValueError")
       ELSE /\ col_op' = "create_multi_source_iterator"
            /\ NoLazy /\ NoUnified
            /\ \E resps \in [1..Len(apis) -> Responses] :
                 MultiSourceIteratorNew(apis, limit, dedup, resps)
  /\ UNCHANGED <<apis, restVars>>

\* MultiSourceIterator(adapters, query, ...) called by a client directly,
\* beside the collection.
MultiSourceIteratorDirect ==
  /\ NoIteratorYet
  /\ \E adps \in AdapterLists, limit \in 1..MaxLimit, dedup \in BOOLEAN :
       /\ col_op' = "MultiSourceIterator"
       /\ NoLazy /\ NoUnified
       /\ \E resps \in [1..Len(adps) -> Responses] :
            MultiSourceIteratorNew(adps, limit, dedup, resps)
  /\ UNCHANGED <<apis, restVars>>

CollectionNextStep ==
  \/ add_api
  \/ create_iterator
  \/ create_lazy_iterator
  \/ create_multi_source_iterator
  \/ MultiSourceIteratorDirect

SpecCollection == CollectionInit /\ [][CollectionNextStep]_vars

\* ------------------------------------- MultiSourceIterator.group_by_source
\* The records the adapters of a grouped aggregation return.
ViewRecords == [isbn : {"None", "111"}]

ViewResponses ==
  {[raised |-> TRUE, results |-> <<>>]}
    \cup {[raised |-> FALSE, results |-> r] : r \in SeqUpTo(ViewRecords, MaxResults)}

RECURSIVE TotalRecords(_, _)
TotalRecords(resps, n) ==
  IF n = 0 THEN 0 ELSE TotalRecords(resps, n - 1) + Len(resps[n].results)

\* Index of the entry of the dict `grouped` with the key, 0 if it has none
\* (`if api_source not in grouped`).  A dict keeps its keys in insertion
\* order: it is the sequence of its [key, results] entries.
KeyIndex(dict, key) ==
  IF \E i \in DOMAIN dict : dict[i].key = key
  THEN CHOOSE i \in DOMAIN dict : dict[i].key = key
  ELSE 0

\* `grouped[api_source].append(result)`, after `grouped[api_source] = []`
\* for a new key.
GroupAddFirstOnly(dict, result) ==
  LET i == KeyIndex(dict, result.api_source)
  IN IF i = 0
     THEN Append(dict, [key |-> result.api_source, results |-> <<result>>])
     ELSE dict

GroupAdd(dict, result) ==
  LET i == KeyIndex(dict, result.api_source)
  IN IF i = 0
     THEN Append(dict, [key |-> result.api_source, results |-> <<result>>])
     ELSE [dict EXCEPT ![i].results = Append(@, result)]

\* The for loop of group_by_source from the k-th record on.
RECURSIVE GroupBySource(_, _, _)
GroupBySource(all, k, dict) ==
  IF k > Len(all) THEN dict
  ELSE GroupBySource(all, k + 1, GroupAdd(dict, all[k]))

\* MultiSourceIterator(adapters, query, limit_per_api, deduplicate_by_isbn):
\* the state the constructor leaves.
MultiViewInit ==
  /\ LazyIdle /\ UnifiedIdle /\ CollectionIdle /\ RestIdle
  /\ adapters \in AdapterLists
  /\ limit_per_api = MaxLimit
  /\ deduplicate \in BOOLEAN
  /\ returned \in [1..Len(adapters) -> ViewResponses]
  /\ TotalRecords(returned, Len(returned)) <= MaxRecords
  /\ LET s == LoadAllResults([all |-> <<>>, seen |-> {}, error |-> "none"],
                             adapters, returned, 1, deduplicate)
     IN /\ all_results = s.all
        /\ seen_isbns = s.seen
        /\ ms_error = s.error
  /\ ms_position = 0
  /\ ms_pc = "done"
  /\ ms_i = Len(adapters) + 1
  /\ ms_ret = Ret("none", NoRecord)

\* MultiSourceIterator.group_by_source
MultiGroupBySource ==
  /\ ms_pc = "done"
  /\ grouped' = GroupBySource(all_results, 1, <<>>)
  /\ ms_ret' = Ret("grouped", NoRecord)
  /\ UNCHANGED <<adapters, limit_per_api, deduplicate, all_results, ms_position,
                 seen_isbns, ms_pc, ms_i, ms_error, returned, notView>>

MultiViewStep == MultiNext \/ MultiReset \/ MultiGroupBySource

SpecMultiView == MultiViewInit /\ [][MultiViewStep]_vars

\* ------------------------------------------ ReviewService, moderation chain
\* The values a request hands to submit: two users, an empty and a non-empty
\* title, no rating and ratings inside and outside 1..5, and no text, a text
\* of two characters, a good text and one of the deny list in capitals.
UserIds == {1, 2}

BookTitles == {"", "Dune"}

NoRating == [given |-> FALSE, value |-> 0]

Ratings == {NoRating} \cup {[given |-> TRUE, value |-> n] : n \in {0, 5, 6}}

TextShort == <<"o", "k">>

TextGood == <<"b", "o", "m", " ", "l", "i", "v", "r", "o">>

TextProfane == <<"I", "d", "i", "o", "t", "a", " ">>

Texts == {None, TextShort, TextGood, TextProfane}

\* min_chars and max_chars of LengthHandler
MinChars == 5

MaxChars == 1000

\* The default deny_list of ProfanityHandler.
DenyList ==
  {<<"i", "d", "i", "o", "t", "a">>, <<"i", "m", "b", "e", "c", "i", "l">>,
   <<"p", "a", "l", "a", "v", "r", "a", "o">>}

\* `text.strip()`
RECURSIVE StripLeft(_)
StripLeft(t) ==
  IF t # <<>> /\ Head(t) = " " THEN StripLeft(Tail(t)) ELSE t

RECURSIVE StripRight(_)
StripRight(t) ==
  IF t # <<>> /\ t[Len(t)] = " " THEN StripRight(SubSeq(t, 1, Len(t) - 1))
  ELSE t

Strip(t) == StripRight(StripLeft(t))

\* `text.lower()` over the letters of the texts above
LowerChar(c) == IF c = "I" THEN "i" ELSE c

Lower(t) == [i \in DOMAIN t |-> LowerChar(t[i])]

\* `bad in lowered`
Contains(t, word) ==
  \E i \in 1..(Len(t) - Len(word) + 1) :
      SubSeq(t, i, i + Len(word) - 1) = word

\* RequiredFieldsHandler.do_handle
RequiredFieldsErrors(ctx) ==
  (IF ctx.book_title = "" THEN <<"MISSING_BOOK">> ELSE <<>>)
    \o (IF ~ctx.rating.given THEN <<"MISSING_RATING">> ELSE <<>>)
    \o (IF ctx.text = None \/ Strip(ctx.text) = <<>>
        THEN <<"MISSING_TEXT">> ELSE <<>>)

\* LengthHandler.do_handle
LengthErrors(ctx) ==
  IF ctx.text = None THEN <<>>
  ELSE (IF Len(Strip(ctx.text)) < MinChars THEN <<"TEXT_TOO_SHORT">>
        ELSE <<>>)
         \o (IF Len(Strip(ctx.text)) > MaxChars THEN <<"TEXT_TOO_LONG">>
             ELSE <<>>)

\* ProfanityHandler.do_handle
ProfanityErrors(ctx) ==
  IF ctx.text = None \/ ctx.text = <<>> THEN <<>>
  ELSE IF \E bad \in DenyList : Contains(Lower(ctx.text), bad)
  THEN <<"PROFANITY">>
  ELSE <<>>

\* `Review.objects.filter(user_id=..., book_title=...).exists()`
ReviewExists(rows, user_id, book_title) ==
  \E i \in DOMAIN rows :
      rows[i].user_id = user_id /\ rows[i].book_title = book_title

\* DuplicateHandler.do_handle over the rows the transaction sees
DuplicateErrors(ctx, rows) ==
  IF ctx.user_id # 0 /\ ctx.book_title # ""
       /\ ReviewExists(rows, ctx.user_id, ctx.book_title)
  THEN <<"DUPLICATE">>
  ELSE <<>>

\* build_default_chain().handle(ctx): the errors the four handlers collect,
\* in chain order.
ChainErrors(ctx, rows) ==
  RequiredFieldsErrors(ctx) \o LengthErrors(ctx) \o ProfanityErrors(ctx)
    \o DuplicateErrors(ctx, rows)

\* AbstractHandler.handle at the end of the chain
StatusOf(errors) == IF errors # <<>> THEN "REJECTED" ELSE "APPROVED"

\* No submit call is running for the request.
NoSubmit ==
  [pc |-> "idle", user_id |-> 0, book_title |-> "", rating |-> NoRating,
   text |-> None, errors |-> <<>>, status |-> "none"]

\* The Review row of an approved submission.
RowOf(ctx) ==
  [user_id |-> ctx.user_id, book_title |-> ctx.book_title,
   rating |-> ctx.rating.value]

\* A ReviewService with the default chain, an empty Review table and no
\* request running.
ReviewInit ==
  /\ MultiIdle /\ LazyIdle /\ UnifiedIdle /\ CollectionIdle
  /\ StableIdle /\ BuilderIdle /\ AdapterIdle
  /\ ViewIdle /\ SingletonIdle /\ CursorIdle
  /\ reviews = <<>>
  /\ rv = [t \in 1..MaxRequests |-> NoSubmit]

\* submit, up to the result of the chain: the ReviewContext is built and the
\* handlers run; DuplicateHandler reads the rows committed so far.
SubmitHandle(t) ==
  /\ rv[t].pc = "idle"
  /\ \E u \in UserIds, b \in BookTitles, r \in Ratings, x \in Texts :
       LET ctx == [NoSubmit EXCEPT !.user_id = u, !.book_title = b,
                                   !.rating = r, !.text = x]
           errors == ChainErrors(ctx, reviews)
       IN rv' = [rv EXCEPT ![t] = [ctx EXCEPT !.pc = "handled",
                                              !.errors = errors,
                                              !.status = StatusOf(errors)]]
  /\ UNCHANGED <<reviews, notReview>>

\* submit, from the result of the chain: `Review.objects.create(...)` when
\* the status is APPROVED, the commit of transaction.atomic and the return.
SubmitCreate(t) ==
  /\ rv[t].pc = "handled"
  /\ reviews' = IF rv[t].status = "APPROVED"
                THEN Append(reviews, RowOf(rv[t]))
                ELSE reviews
  /\ rv' = [rv EXCEPT ![t].pc = "returned"]
  /\ UNCHANGED notReview

ReviewNextStep == \E t \in 1..MaxRequests : SubmitHandle(t) \/ SubmitCreate(t)

SpecReview == ReviewInit /\ [][ReviewNextStep]_vars

\* ------------------------------------- SingletonMeta, RecommendationEngine
\* sg.instances is the instance stored under the class in
\* SingletonMeta._instances (0 when the class is not in the dict), an
\* instance being named by the number of the __init__ run that made it;
\* sg.lock is the thread holding SingletonMeta._lock (0 when it is free);
\* sg.inits counts the runs of RecommendationEngine.__init__.

\* `cls not in cls._instances`
NotInInstances(instances) == instances = 0

\* `with cls._lock:` can be entered
LockFreeAlways(lock) == TRUE

LockFree(lock) == lock = 0

\* A thread before its call of RecommendationEngine().
NoThread == [pc |-> "idle", instance |-> 0, got |-> 0]

\* The class before any call, or after the module-level
\* `engine = RecommendationEngine()` ran at import.
SingletonInit ==
  /\ MultiIdle /\ LazyIdle /\ UnifiedIdle /\ CollectionIdle
  /\ StableIdle /\ BuilderIdle /\ AdapterIdle
  /\ ViewIdle /\ ReviewIdle /\ CursorIdle
  /\ \E made \in {0, 1} :
       sg = [instances |-> made, lock |-> 0, inits |-> made,
             threads |-> [t \in 1..MaxThreads |-> NoThread]]

\* The thread t of sg after pc and the other fields are set.
AtPc(t, pc) == [sg EXCEPT !.threads[t].pc = pc]

\* `if cls not in cls._instances:` outside the lock
FirstCheck(t) ==
  /\ sg.threads[t].pc = "idle"
  /\ sg' = AtPc(t, IF NotInInstances(sg.instances) THEN "acquire"
                   ELSE "return")
  /\ UNCHANGED notSingleton

\* `with cls._lock:` on entry
AcquireLock(t) ==
  /\ sg.threads[t].pc = "acquire"
  /\ LockFree(sg.lock)
  /\ sg' = [AtPc(t, "check") EXCEPT !.lock = t]
  /\ UNCHANGED notSingleton

\* `if cls not in cls._instances:` inside the lock
SecondCheck(t) ==
  /\ sg.threads[t].pc = "check"
  /\ sg' = AtPc(t, IF NotInInstances(sg.instances) THEN "create"
                   ELSE "release")
  /\ UNCHANGED notSingleton

\* `instance = super().__call__(*args, **kwargs)`: __init__ runs
CreateInstance(t) ==
  /\ sg.threads[t].pc = "create"
  /\ sg' = [AtPc(t, "store") EXCEPT !.inits = @ + 1,
                                    !.threads[t].instance = sg.inits + 1]
  /\ UNCHANGED notSingleton

\* `cls._instances[cls] = instance`
StoreInstance(t) ==
  /\ sg.threads[t].pc = "store"
  /\ sg' = [AtPc(t, "release") EXCEPT !.instances = sg.threads[t].instance]
  /\ UNCHANGED notSingleton

\* `with cls._lock:` on exit
ReleaseLock(t) ==
  /\ sg.threads[t].pc = "release"
  /\ sg' = [AtPc(t, "return") EXCEPT !.lock = 0]
  /\ UNCHANGED notSingleton

\* `return cls._instances[cls]`
ReturnInstance(t) ==
  /\ sg.threads[t].pc = "return"
  /\ sg' = [AtPc(t, "done") EXCEPT !.threads[t].got = sg.instances]
  /\ UNCHANGED notSingleton

SingletonNextStep ==
  \E t \in 1..MaxThreads :
      \/ FirstCheck(t) \/ AcquireLock(t) \/ SecondCheck(t)
      \/ CreateInstance(t) \/ StoreInstance(t) \/ ReleaseLock(t)
      \/ ReturnInstance(t)

SpecSingleton == SingletonInit /\ [][SingletonNextStep]_vars

\* ------------------------------------------------------- UnifiedAPIIterator
\* What a call on the iterator gave: `kind` is "record" (with `index`, the
\* place of the record in _results counted from 1), "None", "StopIteration",
\* "IndexError", "True" / "False" (has_next) or "none" for a call that
\* returns nothing.
CursorRet(op, kind, index) == [op |-> op, kind |-> kind, index |-> index]

\* `self._results[i]`: the place, counted from 1, of the element a Python
\* list of length n gives for the index i (negative indices count from the
\* end), 0 when the index is out of range and IndexError is raised.
PyIndex(n, i) ==
  IF 0 <= i /\ i < n THEN i + 1
  ELSE IF -n <= i /\ i < 0 THEN n + i + 1
  ELSE 0

\* `min(self._position + count, self._total)`
SkipTarget(position, count, total) ==
  IF position + count <= total THEN position + count ELSE total

\* UnifiedAPIIterator(results, api_name)
CursorInit ==
  /\ MultiIdle /\ LazyIdle /\ CollectionIdle
  /\ StableIdle /\ BuilderIdle /\ AdapterIdle
  /\ ViewIdle /\ ReviewIdle /\ SingletonIdle
  /\ u_results \in SeqUpTo(PageRecords, MaxResults)
  /\ u_api_name = "google_books"
  /\ u_position = 0
  /\ u_total = Len(u_results)
  /\ u_ret = NoCursorCall

\* UnifiedAPIIterator.__next__
CursorNext ==
  /\ IF ~UnifiedHasNext
     THEN /\ u_ret' = CursorRet("next", "StopIteration", 0)
          /\ u_position' = u_position
     ELSE IF PyIndex(u_total, u_position) = 0
     THEN /\ u_ret' = CursorRet("next", "IndexError", 0)
          /\ u_position' = u_position
     ELSE /\ u_ret' = CursorRet("next", "record",
                                PyIndex(u_total, u_position))
          /\ u_position' = u_position + 1
  /\ UNCHANGED <<u_results, u_api_name, u_total, notCursor>>

\* UnifiedAPIIterator.peek
CursorPeek ==
  /\ u_ret' = IF ~UnifiedHasNext THEN CursorRet("peek", "None", 0)
              ELSE IF PyIndex(u_total, u_position) = 0
              THEN CursorRet("peek", "IndexError", 0)
              ELSE CursorRet("peek", "record", PyIndex(u_total, u_position))
  /\ UNCHANGED <<uniVars, notCursor>>

\* UnifiedAPIIterator.has_next
CursorHasNext ==
  /\ u_ret' = CursorRet("has_next",
                        IF UnifiedHasNext THEN "True" ELSE "False", 0)
  /\ UNCHANGED <<uniVars, notCursor>>

\* UnifiedAPIIterator.skip(count)
CursorSkip ==
  /\ \E count \in (-MaxSkip)..MaxSkip :
       /\ u_position + count >= -MaxSkip
       /\ u_position' = SkipTarget(u_position, count, u_total)
  /\ u_ret' = CursorRet("skip", "none", 0)
  /\ UNCHANGED <<u_results, u_api_name, u_total, notCursor>>

\* UnifiedAPIIterator.reset
CursorReset ==
  /\ u_position' = 0
  /\ u_ret' = CursorRet("reset", "none", 0)
  /\ UNCHANGED <<u_results, u_api_name, u_total, notCursor>>

CursorNextStep ==
  CursorNext \/ CursorPeek \/ CursorHasNext \/ CursorSkip \/ CursorReset

SpecCursor == CursorInit /\ [][CursorNextStep]_vars

\* ------------------------------------------- properties, MultiSourceIterator
\* The record at position k of the list the s-th adapter returned is in the
\* merged output.
Kept(s, k) == \E i \in 1..Len(all_results) :
                all_results[i].src = s /\ all_results[i].idx = k

\* (s1, k1) was processed before (s2, k2).
Earlier(s1, k1, s2, k2) == s1 < s2 \/ (s1 = s2 /\ k1 < k2)

\* A record with the same non-empty isbn was processed before (s, k).
SeenBefore(s, k) ==
  /\ Truthy(returned[s].results[k].isbn)
  /\ \E s1 \in 1..Len(returned) : \E k1 \in 1..Len(returned[s1].results) :
       /\ Earlier(s1, k1, s, k)
       /\ returned[s1].results[k1].isbn = returned[s].results[k].isbn

\* The lists returned so far, one after the other.
RECURSIVE ConcatReturned(_)
ConcatReturned(n) ==
  IF n = 0 THEN <<>> ELSE ConcatReturned(n - 1) \o returned[n].results

OutputIsbns == [i \in 1..Len(all_results) |-> all_results[i].isbn]

OutputTags == [i \in 1..Len(all_results) |-> all_results[i].api_source]

\* C1: with deduplicate_by_isbn=True no two records of the merged output have
\* the same non-empty isbn, whichever adapters returned them.
C1_NoDuplicateIsbn ==
  deduplicate =>
    \A i, j \in 1..Len(all_results) :
      (i # j /\ Truthy(all_results[i].isbn))
        => all_results[i].isbn # all_results[j].isbn

\* Two adapters were loaded with deduplication on; the first returned the
\* same isbn twice and the second returned it again.
C1_Witness ==
  /\ ms_pc = "done" /\ deduplicate /\ Len(returned) = 2
  /\ Len(returned[1].results) = 2 /\ Len(returned[2].results) = 2
  /\ returned[1].results[1].isbn = "111" /\ returned[1].results[2].isbn = "111"
  /\ returned[2].results[1].isbn = "111" /\ returned[2].results[2].isbn = "222"
  /\ Len(all_results) = 2

\* C2: the merged output is source-major: its records are in the order of
\* the adapters and, within one adapter, in the order returned; each is the
\* record its adapter returned; of several records with one isbn the first
\* processed survives; without deduplication the output is the concatenation
\* of the returned lists; A=[111,222], B=[222,333] gives [111,222,333] tagged
\* [A,A,B].
C2_SourceMajor ==
  /\ \A i, j \in 1..Len(all_results) :
       i < j => Earlier(all_results[i].src, all_results[i].idx,
                        all_results[j].src, all_results[j].idx)
  /\ \A i \in 1..Len(all_results) :
       /\ all_results[i].src \in 1..Len(returned)
       /\ all_results[i].idx \in 1..Len(returned[all_results[i].src].results)
       /\ returned[all_results[i].src].results[all_results[i].idx].isbn
            = all_results[i].isbn
       /\ deduplicate => ~SeenBefore(all_results[i].src, all_results[i].idx)
  /\ ~deduplicate =>
       OutputIsbns = [i \in 1..Len(ConcatReturned(Len(returned)))
                        |-> ConcatReturned(Len(returned))[i].isbn]
  /\ ( /\ ms_pc = "done" /\ deduplicate
       /\ adapters = <<"google_books", "open_library">>
       /\ returned = <<[raised |-> FALSE,
                        results |-> <<[isbn |-> "111"], [isbn |-> "222"]>>],
                       [raised |-> FALSE,
                        results |-> <<[isbn |-> "222"], [isbn |-> "333"]>>]>> )
     => /\ OutputIsbns = <<"111", "222", "333">>
        /\ OutputTags = <<"google_books", "google_books", "open_library">>

\* The scenario A=[111,222], B=[222,333] has been aggregated.
C2_Witness ==
  /\ ms_pc = "done" /\ deduplicate
  /\ adapters = <<"google_books", "open_library">>
  /\ Len(returned) = 2
  /\ returned[1].results = <<[isbn |-> "111"], [isbn |-> "222"]>>
  /\ returned[2].results = <<[isbn |-> "222"], [isbn |-> "333"]>>
  /\ Len(all_results) = 3

\* C3: a returned record is missing from the merged output if and only if
\* deduplication is on, its isbn is non-empty and a record processed earlier
\* in the same construction, from any source, has that isbn; records with an
\* empty or absent isbn are kept and without deduplication nothing is dropped.
C3_DroppedIffSeen ==
  \A s \in 1..Len(returned) : \A k \in 1..Len(returned[s].results) :
    ~Kept(s, k) <=> (deduplicate /\ SeenBefore(s, k))

\* With deduplication on, an isbn repeated across sources was dropped while
\* a repeated empty isbn and a repeated absent isbn were kept.
C3_Witness ==
  /\ ms_pc = "done" /\ deduplicate /\ Len(returned) = 2
  /\ returned[1].results = <<[isbn |-> "111"], [isbn |-> ""]>>
  /\ returned[2].results = <<[isbn |-> ""], [isbn |-> "111"]>>
  /\ Len(all_results) = 3

C6_LengthWithinLimits ==
  Len(all_results) <= Len(adapters) * limit_per_api

\* C7: every record of the merged output carries the api name of the adapter
\* whose search_by_query call returned it, and a record already in the
\* output, its tag included, is not changed by processing a later adapter.
C7_TagInv ==
  \A i \in 1..Len(all_results) :
    /\ all_results[i].src \in 1..Len(adapters)
    /\ all_results[i].api_source = adapters[all_results[i].src]

C7_TagStable ==
  \A i \in 1..Len(all_results) :
    Len(all_results') >= i /\ all_results'[i] = all_results[i]

WithTag(all, tag) == SelectSeq(all, LAMBDA r : r.api_source = tag)

C22_GroupedInv ==
  ms_ret.kind = "grouped" =>
    /\ \A i, j \in DOMAIN grouped : grouped[i].key = grouped[j].key => i = j
    /\ \A i \in DOMAIN grouped :
         /\ grouped[i].results # <<>>
         /\ grouped[i].results = WithTag(all_results, grouped[i].key)
    /\ \A k \in DOMAIN all_results :
         \E i \in DOMAIN grouped : grouped[i].key = all_results[k].api_source

C22_GroupedStep ==
  ms_ret'.kind = "grouped" =>
    /\ all_results' = all_results
    /\ ms_position' = ms_position
    /\ returned' = returned
    /\ seen_isbns' = seen_isbns

C22_GroupBySourcePure == []C22_GroupedInv /\ [][C22_GroupedStep]_vars

\* Grouping in the middle of an iteration over records of two sources, one of
\* them with two records.
C22_Witness ==
  /\ ms_ret.kind = "grouped" /\ ms_position = 1
  /\ Len(grouped) = 2 /\ Len(all_results) = 3
  /\ \E i \in DOMAIN grouped : Len(grouped[i].results) = 2
  /\ all_results[1].api_source # all_results[2].api_source

\* ----------------------------------------------- properties, LazyAPIIterator
\* The step is a __next__ call that returned a record and moved the position
\* to the end of the buffered page.
NextReachedPageEnd ==
  /\ lz_op' = "next" /\ lz_ret'.kind = "record"
  /\ ~exhausted
  /\ position_in_page + 1 >= Len(current_results)

\* C8: the position in the page is always within 0..length of the buffered
\* page, and a __next__ call that moves it to the page length either installs
\* a newly fetched page (position 0, page index one more) or sets exhausted.
C8_PositionInv ==
  0 <= position_in_page /\ position_in_page <= Len(current_results)

C8_PageEndStep ==
  NextReachedPageEnd =>
    \/ exhausted'
    \/ /\ lz_fetch' = "ok"
       /\ position_in_page' = 0
       /\ current_page' = current_page + 1

C8_PositionInRange == []C8_PositionInv /\ [][C8_PageEndStep]_vars

\* A __next__ call returned the last record of the first page and installed
\* a second page.
C8_Witness ==
  /\ lz_op = "next" /\ lz_ret.kind = "record" /\ lz_fetch = "ok"
  /\ current_page = 2 /\ position_in_page = 0 /\ ~exhausted
  /\ Len(current_results) = 2

\* C9: between construction (or reset()) and exhaustion at most max_pages
\* calls of search_by_query are made, and at page index max_pages reaching
\* the end of the buffered page sets exhausted without another call.
C9_FetchInv == fetches <= max_pages /\ current_page <= max_pages

C9_LimitStep ==
  (NextReachedPageEnd /\ current_page = max_pages) =>
    /\ exhausted' /\ fetches' = fetches /\ lz_fetch' = "skipped"
    /\ current_page' = current_page /\ current_results' = current_results

C9_AtMostMaxPagesFetches == []C9_FetchInv /\ [][C9_LimitStep]_vars

\* With max_pages pages fetched, a __next__ call reached the end of the last
\* page and the iterator became exhausted without a further fetch.
C9_Witness ==
  /\ max_pages = 2 /\ current_page = 2 /\ fetches = 2
  /\ lz_op = "next" /\ lz_ret.kind = "record" /\ lz_fetch = "skipped"
  /\ exhausted /\ position_in_page = Len(current_results)

\* C10: a page fetch (in the constructor, in reset() or inside __next__) that
\* returns no record or raises leaves the iterator exhausted whatever
\* max_pages is, no exception escapes, the __next__ call that fetched still
\* returns its record, and until reset() has_next() is false and __next__
\* raises StopIteration.
C10_FailedFetchInv ==
  /\ lz_error = "none"
  /\ lz_fetch \in {"empty", "raised"} => exhausted
  /\ exhausted =>
       /\ lz_op = "has_next" => lz_ret.kind = "False"
       /\ (lz_op = "next" /\ lz_fetch = "none") => lz_ret.kind = "StopIteration"

C10_FailedFetchStep ==
  /\ (lz_op' = "next" /\ lz_fetch' \in {"empty", "raised"})
       => lz_ret' = Ret("record", current_results[position_in_page + 1])
  /\ (exhausted /\ lz_op' # "reset") => exhausted'

C10_FailedFetchExhausts == []C10_FailedFetchInv /\ [][C10_FailedFetchStep]_vars

\* Well below max_pages, the fetch inside a __next__ call raised: the call
\* returned its record and the iterator is exhausted.
C10_Witness ==
  /\ max_pages = 2 /\ current_page = 1
  /\ lz_op = "next" /\ lz_fetch = "raised" /\ lz_ret.kind = "record"
  /\ exhausted

\* C11: has_next() is true iff the iterator is not exhausted and the position
\* is before the end of the buffered page; __next__ returns the record at
\* the position exactly when has_next() would be true and otherwise raises
\* StopIteration and changes nothing, so that every further __next__ raises
\* StopIteration too; with max_pages = 1 and a page of n records, n calls of
\* __next__ return the n records in order and the next one raises.
HasNextNow == ~exhausted /\ position_in_page < Len(current_results)

C11_ProtocolInv ==
  /\ lz_error = "none"
  /\ (lz_op = "next" /\ lz_ret.kind = "StopIteration") => ~HasNextNow
  /\ (lz_op = "has_next") => (lz_ret.kind = "True" <=> HasNextNow)
  /\ (max_pages = 1 /\ current_page = 1 /\ exhausted)
       => position_in_page = Len(current_results)

C11_ProtocolStep ==
  /\ lz_op' = "has_next" =>
       /\ lz_ret'.kind \in {"True", "False"}
       /\ lz_ret'.kind = "True" <=> HasNextNow
  /\ lz_op' = "next" =>
       /\ lz_ret'.kind \in {"record", "StopIteration"}
       /\ lz_ret'.kind = "record" <=> HasNextNow
       /\ lz_ret'.kind = "record"
            => lz_ret'.rec = current_results[position_in_page + 1]
       /\ (lz_ret'.kind = "record" /\ max_pages = 1)
            => /\ current_results' = current_results
               /\ position_in_page' = position_in_page + 1
       /\ lz_ret'.kind = "StopIteration"
            => UNCHANGED <<current_page, position_in_page, current_results,
                           exhausted, fetches>>

C11_HasNextProtocol == []C11_ProtocolInv /\ [][C11_ProtocolStep]_vars

\* max_pages = 1 and a first page of two records: two __next__ calls have
\* returned records and the third raised StopIteration.
C11_Witness ==
  /\ max_pages = 1 /\ current_page = 1 /\ Len(current_results) = 2
  /\ position_in_page = 2 /\ exhausted
  /\ lz_op = "next" /\ lz_ret.kind = "StopIteration"

\* C12: over a stable source, reset() at any point (before, during or after
\* the consumption) puts the page index, the buffer, the position and the
\* exhausted flag back to what they were right after the construction and
\* issues the first fetch again, and every full consumption returns the
\* same sequence of records as the first full consumption did.
IsPrefix(a, b) == Len(a) <= Len(b) /\ \A i \in 1..Len(a) : a[i] = b[i]

C12_SameSequenceInv ==
  /\ lz_hist.runs >= 1 => IsPrefix(lz_hist.out, lz_hist.first)
  /\ (lz_hist.runs >= 1 /\ exhausted) => lz_hist.out = lz_hist.first

C12_ResetStep ==
  lz_op' = "reset" =>
    /\ current_page' = lz_hist.init.current_page
    /\ position_in_page' = lz_hist.init.position_in_page
    /\ current_results' = lz_hist.init.current_results
    /\ exhausted' = lz_hist.init.exhausted
    /\ lz_fetch' = lz_hist.init_fetch
    /\ fetches' = CountFetch(lz_hist.init_fetch)
    /\ lz_hist'.out = <<>>

C12_ResetRestarts == []C12_SameSequenceInv /\ [][C12_ResetStep]_vars

\* A second full consumption of two pages of two records completed after a
\* reset().
C12_Witness ==
  /\ lz_hist.runs = 2 /\ exhausted
  /\ Len(lz_hist.out) = 4 /\ lz_hist.out = lz_hist.first

\* C13: a full consumption returns at most max_pages x page_size records.
C13_BoundedOutput == Len(lz_hist.out) <= max_pages * page_size

\* C24: current_position() of a LazyAPIIterator is the number of records
\* __next__ returned since the construction or the last reset(), and it is
\* never negative.
C24_GlobalPosition ==
  lz_op # "none" =>
      /\ LazyCurrentPosition = Len(lz_hist.out)
      /\ LazyCurrentPosition >= 0

\* C25: a LazyAPIIterator fetches on demand only: the construction issues
\* exactly one search_by_query call, has_next() issues none, and a __next__
\* that returns a record (every record returned is in the buffer when the
\* call starts, the last record of a page included) issues none.
C25_InitFetch == lz_op = "init" => fetches = 1

C25_FetchStep ==
  /\ lz_op' = "has_next" => fetches' = fetches
  /\ (lz_op' = "next" /\ lz_ret'.kind = "record") => fetches' = fetches

C25_OnDemandOnly == []C25_InitFetch /\ [][C25_FetchStep]_vars

\* C26: the records a LazyAPIIterator returns are a prefix of the
\* concatenation, in fetch order, of the non-empty pages it fetched, and once
\* has_next() is false (EXHAUSTED by max_pages, by an empty fetch or by a
\* failed fetch) they are exactly that concatenation: nothing is lost,
\* repeated or reordered.
C26_ConcatenationOfPages ==
  lz_op # "none" =>
      /\ IsPrefix(lz_hist.out, lz_hist.pages)
      /\ ~LazyHasNextValue(LazyState) => lz_hist.out = lz_hist.pages

\* Two pages with different records were fetched and consumed to the end.
C26_Witness ==
  /\ lz_op = "next" /\ exhausted /\ current_page = 2
  /\ Len(lz_hist.pages) >= 2
  /\ lz_hist.pages[1] # lz_hist.pages[Len(lz_hist.pages)]
  /\ lz_hist.out = lz_hist.pages

\* ------------------------------------------ properties, IteratorBookBuilder
\* A record whose construction raises nothing: non-empty title, an isbn that
\* is absent or has 10 or 13 digits, and a known source.
ValidRecord(r) ==
  /\ r.title # ""
  /\ r.isbn \in {None, <<>>} \/ Len(SelectSeq(r.isbn, IsDigit)) \in {10, 13}
  /\ r.api_source \in {"manual", "google_books", "open_library"}

\* The Book a valid record is persisted as.
BookOf(r) ==
  [title |-> r.title,
   isbn |-> IF r.isbn \in {None, <<>>} THEN <<>> ELSE SelectSeq(r.isbn, IsDigit),
   source |-> r.api_source]

\* The persisted Books whose isbn is that of record r.
BooksFor(r) == {j \in DOMAIN db : db[j].isbn = SelectSeq(r.isbn, IsDigit)}

Processing == bb.pc = "loop" /\ u_position' = u_position + 1

LastOutcome(b) == b.log[Len(b.log)]

C15_SkipStep ==
  Processing =>
    LET rec == u_results[u_position + 1]
    IN /\ Len(bb'.log) = Len(bb.log) + 1
       /\ LastOutcome(bb') = "skipped"
            <=> /\ bb.skip_existing
                /\ rec.isbn \notin {None, <<>>}
                /\ \E j \in DOMAIN db : db[j].isbn = rec.isbn
       /\ LastOutcome(bb') = "skipped" => db' = db /\ bb'.books = bb.books

C15_SkippedIffExists == [][C15_SkipStep]_vars

\* A record with an isbn was skipped against a persisted Book, after a
\* record without isbn was materialized.
C15_Witness ==
  /\ bb.skip_existing /\ Len(bb.log) = 2
  /\ bb.log[1] = "created" /\ u_results[1].isbn \in {None, <<>>}
  /\ bb.log[2] = "skipped" /\ u_results[2].isbn = Isbn13
  /\ db # <<>> /\ db[1] = ExistingBook

\* C16: a record whose construction fails raises nothing to the caller of
\* build_all / build_batch and produces no Book, and the loop goes on: every
\* later record that is valid and not skipped is materialized, in iterator
\* order, and build_all returns only when the iterator is exhausted.
C16_NoEscapeInv == bb.error = "none" /\ bb.pc \in {"loop", "returned"}

C16_FailureStep ==
  /\ Processing =>
       LET rec == u_results[u_position + 1]
           skipped == /\ bb.skip_existing /\ rec.isbn \notin {None, <<>>}
                      /\ \E j \in DOMAIN db : db[j].isbn = rec.isbn
       IN /\ (~skipped /\ ~ValidRecord(rec))
               => /\ LastOutcome(bb') = "failed"
                  /\ db' = db /\ bb'.books = bb.books
                  /\ bb'.pc = "loop" /\ bb'.error = "none"
          /\ (~skipped /\ ValidRecord(rec))
               => /\ LastOutcome(bb') = "created"
                  /\ db' = Append(db, BookOf(rec))
                  /\ bb'.books = Append(bb.books, BookOf(rec))
  /\ (bb.op = "build_all" /\ bb.pc = "loop" /\ bb'.pc = "returned")
       => u_position = u_total /\ Len(bb.log) = u_total
  /\ (bb.op = "build_batch" /\ bb.pc = "loop" /\ bb'.pc = "returned")
       => u_position = u_total \/ bb.created >= bb.count

Created(log) == Cardinality({i \in DOMAIN log : log[i] = "created"})

C17_BatchInv ==
  bb.op = "build_batch" =>
    /\ Len(bb.books) = bb.created
    /\ bb.created = Created(bb.log)
    /\ bb.created <= bb.count
    /\ Len(bb.log) = u_position
    /\ bb.created = bb.count
         => /\ bb.count > 0 => LastOutcome(bb) = "created"
            /\ bb.count = 0 => u_position = 0
    /\ bb.pc = "returned" => (bb.created = bb.count \/ u_position = u_total)
    /\ bb.error = "none"

C17_BatchStep ==
  (bb.op = "build_batch" /\ bb.pc = "loop" /\ bb.created = bb.count)
    => u_position' = u_position

C23_BuildNextStep ==
  (bb.op = "build_next" /\ bb'.log # bb.log) =>
      IF UnifiedHasNext
      THEN /\ u_position' = u_position + 1
           /\ bb'.log[Len(bb'.log)] = "created"
           /\ Len(bb'.books) = Len(bb.books) + 1
      ELSE /\ u_position' = u_position
           /\ bb'.log[Len(bb'.log)] = "stopped"

C23_NoneOnlyWhenExhausted == [][C23_BuildNextStep]_vars

\* ------------------------------------------------------ properties, adapters
\* C18: whatever the client does (raise, find nothing, return a response
\* that cannot be normalized), no exception leaves the adapter:
\* search_by_isbn and fetch_by_id return None or a record, None whenever the
\* call or the normalization failed; search_by_query returns a list, empty
\* when the call failed, and without the documents that failed to normalize.
Failed(a) ==
  \/ a.client \in {"raise", "none", "no_items", "not_called"}
  \/ a.items # <<>> /\ a.items[1].malformed

C18_AbsorbedInv ==
  /\ ad.escaped = "none"
  /\ ad.op \in {"search_by_isbn", "fetch_by_id"} =>
       /\ ad.kind \in {"None", "record"}
       /\ Failed(ad) <=> ad.kind = "None"
  /\ ad.op = "search_by_query" =>
       /\ ad.kind = "list"
       /\ ad.client # "ok" => ad.value = <<>>
       /\ Len(ad.value) =
            Cardinality({i \in DOMAIN ad.items : ~ad.items[i].malformed})

\* search_by_query returned the one record of a response whose other document
\* could not be normalized.
C18_Witness ==
  /\ ad.op = "search_by_query" /\ ad.client = "ok" /\ Len(ad.items) = 2
  /\ ad.items[1].malformed /\ ~ad.items[2].malformed
  /\ ad.kind = "list" /\ Len(ad.value) = 1 /\ ad.escaped = "none"

\* C19: when the raw document holds both a 13-digit and a 10-digit ISBN,
\* normalize_to_standard_format selects the 13-digit one, whatever the order
\* of the identifiers and whether or not they are hyphenated.
DigitsOf(str) == Len(SelectSeq(str, IsDigit))

C19_Prefers13 ==
  (/\ nz.done
   /\ \E i \in DOMAIN nz.ids : DigitsOf(nz.ids[i]) = 13
   /\ \E i \in DOMAIN nz.ids : DigitsOf(nz.ids[i]) = 10)
    => (nz.isbn # None /\ DigitsOf(nz.isbn) = 13)

\* C20: the isbn of a normalized record holds digits only: every separator
\* of the raw identifier (hyphen, space, any other) is removed.
C20_DigitsOnly ==
  (nz.done /\ nz.isbn # None) => \A i \in DOMAIN nz.isbn : IsDigit(nz.isbn[i])

\* C21: normalize_to_standard_format of either adapter raises nothing on a
\* raw document whose optional fields are missing or empty; no identifiers
\* give isbn = None, a missing author list gives authors = [], and an absent
\* or empty cover / image field gives cover_url = None.
C21_ToleratesMissing ==
  /\ nz.raised = "none"
  /\ nz.done =>
       /\ nz.ids = <<>> => nz.isbn = None
       /\ nz.authors_in = None => nz.authors = <<>>
       /\ (/\ nz.image_links \in {"absent", "empty"}
           /\ nz.cover_i = "absent"
           /\ nz.covers \in {None, <<>>}) => nz.cover_url = "None"

\* ---------------------------------------------- properties, BookAPICollection
\* C5: every aggregation or iteration started with an empty adapter set is
\* rejected with ValueError and queries nothing: create_iterator,
\* create_lazy_iterator and create_multi_source_iterator on a collection
\* without adapters, and MultiSourceIterator constructed directly with an
\* empty adapter list.
C5_EmptyAdapterSetRejected ==
  /\ ( /\ col_op \in {"create_iterator", "create_lazy_iterator",
                      "create_multi_source_iterator"}
       /\ apis = <<>> )
     => (col_error = "ValueError" /\ col_calls = 0)
  /\ (col_op = "MultiSourceIterator" /\ adapters = <<>> /\ ms_pc # "none")
     => (col_error = "ValueError" /\ col_calls = 0)

\* The part of C5 about the collection: its three factory methods raise
\* ValueError, without a query and without building an iterator, when no
\* adapter was added.
C5_CollectionRejectsEmpty ==
  ( /\ col_op \in {"create_iterator", "create_lazy_iterator",
                   "create_multi_source_iterator"}
    /\ apis = <<>> )
  => /\ col_error = "ValueError" /\ col_calls = 0
     /\ ms_pc = "none" /\ lz_op = "none" /\ u_api_name = "none"

\* ------------------------------------------------ properties, ReviewService
\* C27: after any interleaving of submit calls no user has two stored
\* Reviews for the same book_title.
C27_OneReviewPerUserAndBook ==
  \A i, j \in DOMAIN reviews :
      (reviews[i].user_id = reviews[j].user_id
         /\ reviews[i].book_title = reviews[j].book_title) => i = j

\* C28: every stored Review has a rating in 1..5.
C28_RatingInRange ==
  \A i \in DOMAIN reviews : reviews[i].rating \in 1..5

\* -------------------------------------------------- properties, singleton
\* C29: under any interleaving of the threads calling RecommendationEngine()
\* __init__ runs at most once and every caller gets the same instance.
C29_SingleInstance ==
  /\ sg.inits <= 1
  /\ \A t, u \in DOMAIN sg.threads :
         (sg.threads[t].pc = "done" /\ sg.threads[u].pc = "done") =>
             /\ sg.threads[t].got = sg.threads[u].got
             /\ sg.threads[t].got # 0

\* A thread that saw no instance outside the lock finds one inside it, made
\* by another thread, and two callers have returned.
C29_Witness ==
  /\ \E t \in DOMAIN sg.threads :
         sg.threads[t].pc = "release" /\ sg.threads[t].instance = 0
  /\ \E t, u \in DOMAIN sg.threads :
         t # u /\ sg.threads[t].pc = "done" /\ sg.threads[u].pc = "done"

\* ------------------------------------------ properties, UnifiedAPIIterator
\* C30: after any sequence of next(), peek(), skip(n) and reset() on a
\* UnifiedAPIIterator, 0 <= current_position() <= total_count(); peek()
\* leaves the position unchanged; next() returns the record at the current
\* position, in list order, or raises StopIteration and nothing else.
C30_PositionInRange == 0 <= u_position /\ u_position <= u_total

C30_CallStep ==
  /\ u_ret'.op = "peek" => u_position' = u_position
  /\ u_ret'.op = "next" =>
         \/ /\ u_ret'.kind = "record"
            /\ u_ret'.index = u_position + 1
            /\ u_position' = u_position + 1
         \/ /\ u_ret'.kind = "StopIteration"
            /\ u_position = u_total
            /\ u_position' = u_position

C30_InOrderWithinBounds == []C30_PositionInRange /\ [][C30_CallStep]_vars

====
